---- MODULE Spec2Model ----
(***************************************************************************)
(* Model of happi-file-sync-confluence.                                    *)
(*                                                                         *)
(* The specifications of this module share its variables:                  *)
(*   Spec          the two batch entry points (index.run, fail-fast with   *)
(*                 Promise.all; LocalRunner.run, collect-all with          *)
(*                 Promise.allSettled) and the per-page task syncFiles,    *)
(*                 one step per await of the code;                         *)
(*   SpecLive      the batches of Spec under fair scheduling;              *)
(*   SpecSyncFiles one syncFiles invocation over the optional settings;    *)
(*   SpecTargets   index.run over page lists that may repeat a page id or  *)
(*                 a file;                                                 *)
(*   SpecConvert   the content conversions and their dispatch;             *)
(*   SpecNormalize the normalizer of rendered code blocks;                 *)
(*   SpecClient    the ConfluenceApiClient: construction, header building, *)
(*                 makeRequest and the four operations, one step per await.*)
(***************************************************************************)
EXTENDS Integers, Sequences, FiniteSets, TLC

(***************************************************************************)
(* Bounds of the model.                                                    *)
(***************************************************************************)
MaxPages == 3

Pages == 1..MaxPages

(***************************************************************************)
(* Text.  A string of the program is a sequence of one-character strings,  *)
(* so that concatenation and String.prototype.includes are computed.       *)
(***************************************************************************)
MaxTextLen == 3     \* longest response body drawn

RECURSIVE TextsUpTo(_, _)
TextsUpTo(alphabet, n) ==
    IF n = 0 THEN {<<>>}
    ELSE LET shorter == TextsUpTo(alphabet, n - 1)
         IN  shorter \cup {Append(t, c) : t \in shorter, c \in alphabet}

\* String.prototype.includes(needle)
Includes(text, needle) ==
    \E i \in 1..(Len(text) - Len(needle) + 1) :
        SubSeq(text, i, i + Len(needle) - 1) = needle

StartsWith(text, prefix) ==
    /\ Len(text) >= Len(prefix)
    /\ SubSeq(text, 1, Len(prefix)) = prefix

Digit(d) == <<"0", "1", "2", "3", "4", "5", "6", "7", "8", "9">>[d + 1]

\* Number -> decimal text, as the template literal `${response.status}` does
RECURSIVE ToDecimal(_)
ToDecimal(n) ==
    IF n < 10 THEN <<Digit(n)>>
    ELSE Append(ToDecimal(n \div 10), Digit(n % 10))

(***************************************************************************)
(* Optional string fields of ConfluenceConfig: <<>> is undefined, <<s>> is *)
(* the string s.  JavaScript truthiness: undefined and "" are falsy.       *)
(***************************************************************************)
Undefined == <<>>
Some(s) == <<s>>
Truthy(o) == o # Undefined /\ o[1] # <<>>
\* an optional text: absent, empty, or the given text
OptionalTexts(text) == {Undefined, Some(<<>>), Some(text)}

\* Buffer.from(text).toString("base64") for the characters the model draws
CharCode(c) ==
    CASE c = "u" -> 117
      [] c = "p" -> 112
      [] c = "w" -> 119
      [] c = "t" -> 116
      [] c = ":" -> 58

Base64Alphabet ==
    <<"A","B","C","D","E","F","G","H","I","J","K","L","M","N","O","P",
      "Q","R","S","T","U","V","W","X","Y","Z","a","b","c","d","e","f",
      "g","h","i","j","k","l","m","n","o","p","q","r","s","t","u","v",
      "w","x","y","z","0","1","2","3","4","5","6","7","8","9","+","/">>

Sextet(n) == Base64Alphabet[n + 1]

RECURSIVE Base64(_)
Base64(text) ==
    IF Len(text) = 0 THEN <<>>
    ELSE LET b1 == CharCode(text[1])
             b2 == IF Len(text) >= 2 THEN CharCode(text[2]) ELSE 0
             b3 == IF Len(text) >= 3 THEN CharCode(text[3]) ELSE 0
             n  == b1 * 65536 + b2 * 256 + b3
             c1 == Sextet(n \div 262144)
             c2 == Sextet((n \div 4096) % 64)
             c3 == IF Len(text) >= 2 THEN Sextet((n \div 64) % 64) ELSE "="
             c4 == IF Len(text) >= 3 THEN Sextet(n % 64) ELSE "="
         IN  <<c1, c2, c3, c4>> \o
             (IF Len(text) > 3 THEN Base64(SubSeq(text, 4, Len(text))) ELSE <<>>)

(***************************************************************************)
(* ConfluenceApiClient: constructor validation and header construction.    *)
(***************************************************************************)
\* the constructor's guard: throws unless this holds
ConstructorAcceptsLoose(cfg) ==
    Truthy(cfg.personalAccessToken) \/ Truthy(cfg.user) \/ Truthy(cfg.pass)

ConstructorAccepts(cfg) ==
    ~(~Truthy(cfg.personalAccessToken) /\ ~(Truthy(cfg.user) /\ Truthy(cfg.pass)))

BearerPrefix == <<"B","e","a","r","e","r"," ">>
BasicPrefix  == <<"B","a","s","i","c"," ">>
ApplicationJson == "application/json"

\* a plausible slip: user/pass tested before the token
GetAuthHeadersBasicFirst(cfg) ==
    LET base == [ContentType |-> ApplicationJson, Accept |-> ApplicationJson,
                 Authorization |-> Undefined]
    IN  IF Truthy(cfg.user) /\ Truthy(cfg.pass)
        THEN [base EXCEPT !.Authorization =
                 Some(BasicPrefix \o Base64(cfg.user[1] \o <<":">> \o cfg.pass[1]))]
        ELSE IF Truthy(cfg.personalAccessToken)
        THEN [base EXCEPT !.Authorization =
                 Some(BearerPrefix \o cfg.personalAccessToken[1])]
        ELSE base

GetAuthHeaders(cfg) ==
    LET base == [ContentType |-> ApplicationJson, Accept |-> ApplicationJson,
                 Authorization |-> Undefined]
    IN  IF Truthy(cfg.personalAccessToken)
        THEN [base EXCEPT !.Authorization =
                 Some(BearerPrefix \o cfg.personalAccessToken[1])]
        ELSE IF Truthy(cfg.user) /\ Truthy(cfg.pass)
        THEN [base EXCEPT !.Authorization =
                 Some(BasicPrefix \o Base64(cfg.user[1] \o <<":">> \o cfg.pass[1]))]
        ELSE base

(***************************************************************************)
(* makeRequest: the outcome of one fetch.                                  *)
(***************************************************************************)
\* what `await fetch(url, ...)` can deliver
NetworkError == [kind |-> "networkError", status |-> 0, statusText |-> <<>>,
                 body |-> <<>>]
Response(status, statusText, body) ==
    [kind |-> "response", status |-> status, statusText |-> statusText,
     body |-> body]

\* Response.ok
Ok(resp) == resp.kind = "response" /\ resp.status >= 200 /\ resp.status <= 299

FailedPrefix ==
    <<"C","o","n","f","l","u","e","n","c","e"," ","A","P","I"," ",
      "r","e","q","u","e","s","t"," ","f","a","i","l","e","d",":"," ">>
ResponsePrefix == <<"\n","R","e","s","p","o","n","s","e",":"," ">>
FetchFailed == <<"f","e","t","c","h"," ","f","a","i","l","e","d">>

\* a plausible slip: the status code left out of the message
ErrorMessageNoStatus(resp) ==
    IF resp.kind = "networkError" THEN FetchFailed
    ELSE FailedPrefix \o resp.statusText \o ResponsePrefix \o resp.body

\* the message of the Error makeRequest throws (or fetch rejects with)
ErrorMessage(resp) ==
    IF resp.kind = "networkError" THEN FetchFailed
    ELSE FailedPrefix \o ToDecimal(resp.status) \o <<" ">> \o resp.statusText
         \o ResponsePrefix \o resp.body

\* a plausible slip: response.ok is not tested
MakeRequestOutcomeUnchecked(resp) ==
    IF resp.kind = "response" THEN "returns" ELSE "throws"
\* makeRequest: "returns" the response, or "throws"
MakeRequestOutcome(resp) == IF Ok(resp) THEN "returns" ELSE "throws"

\* the message of the error makeRequest ends with, empty when it returns
RequestError(resp) ==
    IF MakeRequestOutcome(resp) = "throws" THEN ErrorMessage(resp) ELSE <<>>

\* getPage: "page" (returns the page), "null" (not found) or "throws"
GetPageOutcome(resp) ==
    IF MakeRequestOutcome(resp) = "returns" THEN "page"
    ELSE IF Includes(ErrorMessage(resp), <<"4","0","4">>) THEN "null"
    ELSE "throws"

VARIABLES
    \* ---- configuration and environment of a run
    entry,          \* "action" (index.run), "local" (LocalRunner.run), "client"
    dryRun,         \* LocalRunner.dryRun        (--dry-run)
    validateOnly,   \* LocalRunner.validateOnly  (--validate-only)
    configOk,       \* the file-mappings input parses and passes the schema
    nPages,         \* fileMaps.pages.length
    fileOk,         \* fileOk[p]: page p's resolved file path is accessible
    config,         \* credentials: [personalAccessToken, user, pass]
    fileMappingsInput, \* the file-mappings input: its text and, if JSON, its shape
    fileMap,        \* the parsed configuration's optional settings
    pageMap,        \* pageMap[p]: the page mapping of page p
    \* ---- control state of the batch
    runPc,          \* position of run()
    pc,             \* pc[p]: position of page p's task
    vIdx,           \* validateConfiguration: index of the page being checked
    \* ---- effects of the batch
    remoteStarted,  \* pages whose cosmere sync call has been invoked
    remoteDone,     \* pages whose cosmere sync call resolved
    lateEffects,    \* pages whose sync call resolved after the batch rejected
    taskError,      \* taskError[p]: the error page p's task threw, or "none"
    cosmereCalls,   \* cosmereCalls[p]: the configs handed to cosmereLib for p
    coreGetInput,   \* current binding of core.getInput:  "original" | "mock"
    coreSetOutput,  \* current binding of core.setOutput: "original" | "mock"
    saved,          \* saved[p]: the bindings localSyncFiles of p saved
    outputs,        \* values last passed to core.setOutput, by output name
    outputsVia,     \* bindings of core.setOutput that have been called
    report,         \* LocalRunner's "Results: s successful, f failed"
    logged,         \* milestone log lines written by run()
    \* ---- ConfluenceApiClient
    client,         \* "none" | "ok" (constructed) | "failed" (constructor threw)
    call,           \* the operation in progress: [op, pageId, version, pc]
    requests,       \* requests the operation in progress has issued
    issued,         \* number of requests issued since construction
    response,       \* what the fetch of the operation delivered
    result,         \* how the operation ended: [kind, message, requestError]
    nCalls,         \* operations started
    \* ---- content conversion
    convCaller,     \* who converts: "dryRunSync", "direct" (a call of the dispatch)
    convFile,       \* page.file of the page being converted
    convContent,    \* the content: [text, blocks]
    convType,       \* the content type: determined, specified or Unspecified
    convOptions,    \* the parser options: [wrapInParagraph, splitParagraphs]
    convPc,         \* "idle" | "start" | "typed" | "done"
    converted       \* the Conversion Result, <<>> before the conversion

batchVars == <<entry, dryRun, validateOnly, configOk, nPages, fileOk, runPc, pc,
               vIdx, remoteStarted, remoteDone, lateEffects, taskError,
               coreGetInput, coreSetOutput, saved, outputs, outputsVia, report,
               logged>>

clientVars == <<client, call, requests, issued, response, result, nCalls>>

inputVars == <<fileMappingsInput, fileMap, pageMap>>
convVars == <<convCaller, convFile, convContent, convType, convOptions, convPc,
              converted>>
vars == <<batchVars, config, clientVars, inputVars, cosmereCalls, convVars>>

Cfg == 1..nPages

NoOutputs == [status |-> "unset", pageId |-> 0, pageTitle |-> 0, filePath |-> 0,
              error |-> "unset"]
NoReport == [done |-> FALSE, successful |-> 0, failed |-> 0]
NoSaved == [getInput |-> "none", setOutput |-> "none"]
NoCall == [op |-> "none", pageId |-> 0, version |-> 0, pc |-> "idle"]
NoResponse == [kind |-> "none", status |-> 0, statusText |-> <<>>, body |-> <<>>]
NoResult == [kind |-> "none", message |-> <<>>, requestError |-> <<>>]

MakeConfig(token, user, pass) ==
    [personalAccessToken |-> token, user |-> user, pass |-> pass]

NoContent == [text |-> <<>>, blocks |-> <<>>]
ConvIdle ==
    /\ convCaller = "none"
    /\ convFile = <<>>
    /\ convContent = NoContent
    /\ convType = "none"
    /\ convOptions = [wrapInParagraph |-> TRUE, splitParagraphs |-> TRUE]
    /\ convPc = "idle"
    /\ converted = <<>>

ClientIdle ==
    /\ client = "none"
    /\ call = NoCall
    /\ requests = <<>>
    /\ issued = 0
    /\ response = NoResponse
    /\ result = NoResult
    /\ nCalls = 0

(***************************************************************************)
(* Requests.  Every operation goes through makeRequest, which merges the   *)
(* headers of getAuthHeaders into the request.                             *)
(***************************************************************************)
\* a plausible slip: the request sent without the authentication header
RequestUnauthenticated(cfg, method, path, id, version) ==
    [method |-> method, path |-> path, id |-> id, version |-> version,
     headers |-> [ContentType |-> ApplicationJson, Accept |-> ApplicationJson,
                  Authorization |-> Undefined]]
\* makeRequest(endpoint, options) up to `await fetch`: the request sent
Request(cfg, method, path, id, version) ==
    [method |-> method, path |-> path, id |-> id, version |-> version,
     headers |-> GetAuthHeaders(cfg)]

\* getPage's request: GET /content/{pageId}?expand=...
GetPageRequest(cfg, pageId) == Request(cfg, "GET", "/content/", pageId, 0)

(***************************************************************************)
(* The file-mappings input and the configuration parsed from it.           *)
(***************************************************************************)
\* the inputs: no text, text that is not JSON, or a JSON object in which
\* each field the schema requires is a string/array, another type, or absent
FileMappingsInputs ==
    {[text |-> t, baseUrl |-> "missing", pages |-> "missing",
      pageId |-> "missing", file |-> "missing"] : t \in {"empty", "malformed"}}
    \cup [text : {"json"}, baseUrl : {"string", "missing"},
          pages : {"array", "missing"},
          pageId : {"string", "number", "missing"},
          file : {"string", "missing"}]

\* FileMappingsSchema.parse(json) returns: baseUrl is a string, pages is an
\* array, and each of its n pages has a string pageId and a string file
FileMappingsSchemaAccepts(json, n) ==
    /\ json.baseUrl = "string"
    /\ json.pages = "array"
    /\ n > 0 => (json.pageId = "string" /\ json.file = "string")

\* JSON.parse of the input followed by FileMappingsSchema.parse: neither throws
ParseFileMappingsUnvalidated(input, n) == input.text = "json"
ParseFileMappings(input, n) ==
    /\ input.text = "json"
    /\ FileMappingsSchemaAccepts(input, n)

Build == <<"b","u","i","l","d">>
Cwd == <<"/","w">>
\* the fallback of `prefix || "..."` in syncFiles
DefaultPrefix ==
    <<"T","h","i","s"," ","d","o","c","u","m","e","n","t"," ",
      "i","s"," ","a","u","t","o","m","a","t","i","c","a","l",
      "l","y"," ","g","e","n","e","r","a","t","e","d","."," ",
      "P","l","e","a","s","e"," ","d","o","n","'","t"," ","e",
      "d","i","t"," ","i","t"," ","d","i","r","e","c","t","l",
      "y","!">>

\* the optional settings of a parsed configuration, and a page mapping
MakeFileMap(cachePath, prefix, insecure, force, fileRoot) ==
    [cachePath |-> cachePath, prefix |-> prefix, insecure |-> insecure,
     force |-> force, fileRoot |-> fileRoot]
MakePage(p, title, spaceKey, parentId) ==
    [pageId |-> p, file |-> p, title |-> title, spaceKey |-> spaceKey,
     parentId |-> parentId]

\* the page entry syncFiles puts into cosmereConfig.pages
CosmerePage(page) ==
    [pageId |-> page.pageId, file |-> page.file, title |-> page.title]

\* the prefix syncFiles puts into cosmereConfig
CosmerePrefixAsConfigured(fm) == fm.prefix
CosmerePrefix(fm) == IF Truthy(fm.prefix) THEN Some(fm.prefix[1]) ELSE Some(DefaultPrefix)

\* cosmereConfig, as syncFiles builds it for one page
CosmereConfig(cfg, fm, page) ==
    [user |-> cfg.user, pass |-> cfg.pass,
     personalAccessToken |-> cfg.personalAccessToken,
     cachePath |-> IF fm.cachePath # <<>> THEN fm.cachePath ELSE Build,
     prefix |-> CosmerePrefix(fm),
     insecure |-> fm.insecure,
     force |-> fm.force,
     fileRoot |-> IF Truthy(fm.fileRoot) THEN fm.fileRoot[1] ELSE Cwd,
     pages |-> <<CosmerePage(page)>>]

(***************************************************************************)
(* The batch: index.run, LocalRunner.run and the page tasks.               *)
(***************************************************************************)
Settled(p) == pc[p] \in {"fulfilled", "rejected"}
Fulfilled == {p \in Cfg : pc[p] = "fulfilled"}
Rejected == {p \in Cfg : pc[p] = "rejected"}

\* core.setOutput(name, value) through the current binding, for several names
SetOutputs(new) ==
    /\ outputs' = new
    /\ outputsVia' = outputsVia \cup {coreSetOutput}

\* syncFiles up to its first await: core.getInput("debug"), logger.info
SyncFilesEnter == "access"

\* how the promise of a page task continues once syncFiles has settled:
\* index.run's wrapper settles with it; localSyncFiles runs its finally first
AfterSyncFilesSwallowed(ok) ==
    IF entry = "local" THEN "returned" ELSE "fulfilled"
AfterSyncFiles(ok) ==
    IF entry = "local"
    THEN (IF ok THEN "returned" ELSE "thrown")
    ELSE (IF ok THEN "fulfilled" ELSE "rejected")

\* index.run, up to `await Promise.all(...)`
IndexRun ==
    /\ entry = "action"
    /\ runPc = "start"
    /\ IF ~configOk
       THEN /\ runPc' = "rejected"      \* JSON.parse / FileMappingsSchema.parse throws
            /\ pc' = pc
       ELSE /\ runPc' = "awaitAll"
            /\ pc' = [p \in Pages |-> IF p \in Cfg THEN SyncFilesEnter ELSE pc[p]]
    /\ UNCHANGED <<entry, dryRun, validateOnly, configOk, nPages, fileOk, vIdx,
                   remoteStarted, remoteDone, lateEffects, taskError, coreGetInput,
                   coreSetOutput, saved, outputs, outputsVia, report, logged,
                   config, clientVars>>
    /\ UNCHANGED <<inputVars, cosmereCalls, convVars>>

\* the result of `await fs.access(filePath)` in syncFiles
AccessSkipped(p) == TRUE
FileAccessible(p) == fileOk[p]

\* syncFiles from the access check to the call of cosmereLib (or the catch)
SyncFilesAccess(p) ==
    /\ p \in Cfg
    /\ pc[p] = "access"
    /\ IF FileAccessible(p)
       THEN /\ remoteStarted' = remoteStarted \cup {p}
            /\ cosmereCalls' =
                 [cosmereCalls EXCEPT
                    ![p] = Append(@, CosmereConfig(config, fileMap, pageMap[p]))]
            /\ pc' = [pc EXCEPT ![p] = "remote"]
            /\ UNCHANGED <<outputs, outputsVia, taskError>>
       ELSE /\ SetOutputs([outputs EXCEPT !.status = "failed",
                                          !.error = "file not found"])
            /\ taskError' = [taskError EXCEPT ![p] = "file not found"]
            /\ pc' = [pc EXCEPT ![p] = AfterSyncFiles(FALSE)]
            /\ UNCHANGED <<remoteStarted, cosmereCalls>>
    /\ UNCHANGED <<entry, dryRun, validateOnly, configOk, nPages, fileOk, runPc,
                   vIdx, remoteDone, lateEffects, coreGetInput, coreSetOutput,
                   saved, report, logged, config, clientVars>>
    /\ UNCHANGED <<inputVars, convVars>>

\* a plausible slip: a sync call in flight is abandoned once the batch rejected
InFlightUntilRejected(p) == pc[p] = "remote" /\ runPc # "rejected"
\* page p's task is suspended at `await cosmereLib(cosmereConfig)`
InFlight(p) == pc[p] = "remote"

\* syncFiles from the settling of `await cosmereLib(cosmereConfig)` to its end
SyncFilesRemote(p) ==
    /\ p \in Cfg
    /\ InFlight(p)
    /\ \E ok \in BOOLEAN :
         /\ pc' = [pc EXCEPT ![p] = AfterSyncFiles(ok)]
         /\ IF ok
            THEN /\ remoteDone' = remoteDone \cup {p}
                 /\ lateEffects' = IF runPc = "rejected"
                                   THEN lateEffects \cup {p} ELSE lateEffects
                 /\ SetOutputs([outputs EXCEPT !.pageId = p, !.pageTitle = p,
                                               !.filePath = p,
                                               !.status = "success"])
                 /\ UNCHANGED taskError
            ELSE /\ SetOutputs([outputs EXCEPT !.status = "failed",
                                               !.error = "sync failed"])
                 /\ taskError' = [taskError EXCEPT ![p] = "sync failed"]
                 /\ UNCHANGED <<remoteDone, lateEffects>>
    /\ UNCHANGED <<entry, dryRun, validateOnly, configOk, nPages, fileOk, runPc,
                   vIdx, remoteStarted, coreGetInput, coreSetOutput, saved,
                   report, logged, config, clientVars>>
    /\ UNCHANGED <<inputVars, cosmereCalls, convVars>>

\* Promise.all rejects: some task has rejected
SomeTaskRejected == Rejected # {}

PromiseAllReject ==
    /\ entry = "action"
    /\ runPc = "awaitAll"
    /\ SomeTaskRejected
    /\ runPc' = "rejected"
    /\ UNCHANGED <<entry, dryRun, validateOnly, configOk, nPages, fileOk, pc,
                   vIdx, remoteStarted, remoteDone, lateEffects, taskError, coreGetInput,
                   coreSetOutput, saved, outputs, outputsVia, report, logged,
                   config, clientVars>>
    /\ UNCHANGED <<inputVars, cosmereCalls, convVars>>

\* Promise.all fulfils: every task has fulfilled
EveryTaskSettled == \A p \in Cfg : Settled(p)
EveryTaskFulfilled == \A p \in Cfg : pc[p] = "fulfilled"

PromiseAllResolve ==
    /\ entry = "action"
    /\ runPc = "awaitAll"
    /\ EveryTaskFulfilled
    /\ runPc' = "resolved"
    /\ logged' = logged \cup {"All pages synced successfully"}
    /\ UNCHANGED <<entry, dryRun, validateOnly, configOk, nPages, fileOk, pc,
                   vIdx, remoteStarted, remoteDone, lateEffects, taskError, coreGetInput,
                   coreSetOutput, saved, outputs, outputsVia, report,
                   config, clientVars>>
    /\ UNCHANGED <<inputVars, cosmereCalls, convVars>>

(***************************************************************************)
(* LocalRunner.                                                            *)
(***************************************************************************)
\* LocalRunner.run, up to its first await (or to process.exit)
\* the page task the local runner starts for each page: dryRunSync up to its
\* readFile under --dry-run, else localSyncFiles up to its import
LocalTaskEnterAlwaysSync == "import"
LocalTaskEnter == IF dryRun THEN "reading" ELSE "import"

\* `if (this.validateOnly)`: run validates and returns
ValidationModeUnlessDryRun == validateOnly /\ ~dryRun
ValidationMode == validateOnly

LocalRunnerRun ==
    /\ entry = "local"
    /\ runPc = "start"
    /\ IF ~configOk
       THEN /\ runPc' = "exit1"         \* catch: mockCore.setFailed -> process.exit(1)
            /\ pc' = pc
       ELSE IF ValidationMode
       THEN /\ runPc' = "validate:construct"
            /\ pc' = pc
       ELSE /\ runPc' = "awaitAll"
            /\ pc' = [p \in Pages |-> IF p \in Cfg THEN LocalTaskEnter ELSE pc[p]]
    /\ UNCHANGED <<entry, dryRun, validateOnly, configOk, nPages, fileOk, vIdx,
                   remoteStarted, remoteDone, lateEffects, taskError, coreGetInput,
                   coreSetOutput, saved, outputs, outputsVia, report, logged,
                   config, clientVars>>
    /\ UNCHANGED <<inputVars, cosmereCalls, convVars>>

\* localSyncFiles from `await import("@actions/core")` to `await syncFiles`
LocalSyncFilesSetup(p) ==
    /\ p \in Cfg
    /\ pc[p] = "import"
    /\ saved' = [saved EXCEPT ![p] = [getInput |-> coreGetInput,
                                      setOutput |-> coreSetOutput]]
    /\ coreGetInput' = "mock"
    /\ coreSetOutput' = "mock"
    /\ pc' = [pc EXCEPT ![p] = SyncFilesEnter]
    /\ UNCHANGED <<entry, dryRun, validateOnly, configOk, nPages, fileOk, runPc,
                   vIdx, remoteStarted, remoteDone, lateEffects, taskError, outputs,
                   outputsVia, report, logged, config, clientVars>>
    /\ UNCHANGED <<inputVars, cosmereCalls, convVars>>

\* localSyncFiles' finally block, then the settling of the task's promise
LocalSyncFilesFinally(p) ==
    /\ p \in Cfg
    /\ pc[p] \in {"returned", "thrown"}
    /\ coreGetInput' = saved[p].getInput
    /\ coreSetOutput' = saved[p].setOutput
    /\ pc' = [pc EXCEPT ![p] = IF pc[p] = "returned" THEN "fulfilled"
                               ELSE "rejected"]
    /\ UNCHANGED <<entry, dryRun, validateOnly, configOk, nPages, fileOk, runPc,
                   vIdx, remoteStarted, remoteDone, lateEffects, taskError, saved, outputs,
                   outputsVia, report, logged, config, clientVars>>
    /\ UNCHANGED <<inputVars, cosmereCalls, convVars>>

\* dryRunSync from `await fs.readFile` to its end: converts and logs only
DryRunSync(p) ==
    /\ p \in Cfg
    /\ pc[p] = "reading"
    /\ pc' = [pc EXCEPT ![p] = IF fileOk[p] THEN "fulfilled" ELSE "rejected"]
    /\ taskError' = [taskError EXCEPT ![p] = IF fileOk[p] THEN "none"
                                             ELSE "read failed"]
    /\ UNCHANGED <<entry, dryRun, validateOnly, configOk, nPages, fileOk, runPc,
                   vIdx, remoteStarted, remoteDone, lateEffects, coreGetInput,
                   coreSetOutput, saved, outputs, outputsVia, report, logged,
                   config, clientVars>>
    /\ UNCHANGED <<inputVars, cosmereCalls, convVars>>

\* a plausible slip: Promise.all's discipline in place of Promise.allSettled's
PromiseAllLike == SomeTaskRejected \/ EveryTaskFulfilled
\* Promise.allSettled fulfils: every task has settled
PromiseAllSettled == \A p \in Cfg : Settled(p)

\* a plausible slip: results.length in place of the filtered length
CountResults == Cardinality(Cfg)
\* results.filter((r) => r.status === "fulfilled").length
CountFulfilled == Cardinality(Fulfilled)
\* a plausible slip: a status that no settled result has
CountFailedStatus == Cardinality({p \in Cfg : pc[p] = "failed"})
\* results.filter((r) => r.status === "rejected").length
CountRejected == Cardinality(Rejected)

\* LocalRunner.run after `await Promise.allSettled(...)`: the report
AllSettledReport ==
    /\ entry = "local"
    /\ runPc = "awaitAll"
    /\ PromiseAllSettled
    /\ report' = [done |-> TRUE, successful |-> CountFulfilled,
                  failed |-> CountRejected]
    /\ IF CountRejected > 0
       THEN /\ runPc' = "exit1"         \* process.exit(1)
            /\ UNCHANGED logged
       ELSE /\ runPc' = "done"
            /\ logged' = logged \cup {"All pages synced successfully!"}
    /\ UNCHANGED <<entry, dryRun, validateOnly, configOk, nPages, fileOk, pc,
                   vIdx, remoteStarted, remoteDone, lateEffects, taskError, coreGetInput,
                   coreSetOutput, saved, outputs, outputsVia, config, clientVars>>
    /\ UNCHANGED <<inputVars, cosmereCalls, convVars>>

(***************************************************************************)
(* LocalRunner.validateConfiguration (--validate-only).                    *)
(***************************************************************************)
\* responses the remote gives to the validation fetches
ValidationResponses ==
    {Response(200, <<"O","K">>, <<>>),
     Response(404, <<>>, <<>>),
     Response(500, <<>>, <<>>),
     NetworkError}

\* the step after page vIdx has been checked and the errors of the check
\* logged: the next page, or the return to run(), which logs and returns
\* a plausible slip: the loop is left after a page whose check logged an error
ValidateNextStops(errors) ==
    /\ vIdx' = vIdx + 1
    /\ IF vIdx + 1 > nPages \/ errors # {}
       THEN /\ runPc' = "done"
            /\ logged' = logged \cup errors \cup {"Validation completed successfully"}
       ELSE /\ runPc' = "validate:page"
            /\ logged' = logged \cup errors
ValidateNext(errors) ==
    /\ vIdx' = vIdx + 1
    /\ IF vIdx + 1 > nPages
       THEN /\ runPc' = "done"
            /\ logged' = logged \cup errors \cup {"Validation completed successfully"}
       ELSE /\ runPc' = "validate:page"
            /\ logged' = logged \cup errors

\* new ConfluenceApiClient(...): throws into run()'s catch, or the loop starts
ValidateConstruct ==
    /\ runPc = "validate:construct"
    /\ IF ~ConstructorAccepts(config)
       THEN /\ client' = "failed"
            /\ runPc' = "exit1"         \* catch: mockCore.setFailed -> process.exit(1)
            /\ UNCHANGED <<vIdx, logged>>
       ELSE /\ client' = "ok"
            /\ vIdx' = 1
            /\ IF nPages = 0
               THEN /\ runPc' = "done"
                    /\ logged' = logged \cup {"Validation completed successfully"}
               ELSE /\ runPc' = "validate:page"
                    /\ UNCHANGED logged
    /\ UNCHANGED <<entry, dryRun, validateOnly, configOk, nPages, fileOk, pc,
                   remoteStarted, remoteDone, lateEffects, taskError, coreGetInput,
                   coreSetOutput, saved, outputs, outputsVia, report, config,
                   call, requests, issued, response, result, nCalls>>
    /\ UNCHANGED <<inputVars, cosmereCalls, convVars>>

\* client.getPage(page.pageId) up to `await fetch`
ValidateGetPage ==
    /\ runPc = "validate:page"
    /\ call' = [op |-> "getPage", pageId |-> vIdx, version |-> 0, pc |-> "fetching"]
    /\ requests' = <<GetPageRequest(config, vIdx)>>
    /\ issued' = issued + 1
    /\ nCalls' = nCalls + 1
    /\ response' = NoResponse
    /\ result' = NoResult
    /\ runPc' = "validate:fetching"
    /\ UNCHANGED <<entry, dryRun, validateOnly, configOk, nPages, fileOk, pc,
                   vIdx, remoteStarted, remoteDone, lateEffects, taskError,
                   coreGetInput, coreSetOutput, saved, outputs, outputsVia,
                   report, logged, config, client>>
    /\ UNCHANGED <<inputVars, cosmereCalls, convVars>>

\* the fetch settles: getPage returns a page or null, or throws into the
\* loop's catch, which logs and goes on to the next page
ValidateFetched ==
    /\ runPc = "validate:fetching"
    /\ \E resp \in ValidationResponses :
         /\ response' = resp
         /\ LET outcome == GetPageOutcome(resp)
            IN  /\ result' = [kind |-> IF outcome = "throws" THEN "error" ELSE outcome,
                              message |-> IF outcome = "throws"
                                          THEN ErrorMessage(resp) ELSE <<>>,
                              requestError |-> RequestError(resp)]
                /\ call' = [call EXCEPT !.pc = IF outcome = "throws" THEN "thrown"
                                               ELSE "returned"]
                /\ IF outcome = "throws"
                   THEN ValidateNext({"Error checking page"})
                   ELSE /\ runPc' = "validate:file"
                        /\ UNCHANGED <<vIdx, logged>>
    /\ UNCHANGED <<entry, dryRun, validateOnly, configOk, nPages, fileOk, pc,
                   remoteStarted, remoteDone, lateEffects, taskError, coreGetInput,
                   coreSetOutput, saved, outputs, outputsVia, report, config,
                   client, requests, issued, nCalls>>
    /\ UNCHANGED <<inputVars, cosmereCalls, convVars>>

\* fs.access / fs.stat of the local file: logged either way
ValidateFile ==
    /\ runPc = "validate:file"
    /\ ValidateNext(IF fileOk[vIdx] THEN {} ELSE {"Local file not found"})
    /\ UNCHANGED <<entry, dryRun, validateOnly, configOk, nPages, fileOk, pc,
                   remoteStarted, remoteDone, lateEffects, taskError, coreGetInput,
                   coreSetOutput, saved, outputs, outputsVia, report, config,
                   clientVars>>
    /\ UNCHANGED <<inputVars, cosmereCalls, convVars>>

(***************************************************************************)
(* The specification of the batch.                                         *)
(***************************************************************************)
\* credentials a batch configuration carries
\* a well-formed input, and a configuration that sets no optional field
\* (cachePath, insecure and force get their schema defaults)
ValidInput ==
    [text |-> "json", baseUrl |-> "string", pages |-> "array",
     pageId |-> "string", file |-> "string"]
PlainFileMap == MakeFileMap(Build, Undefined, FALSE, FALSE, Undefined)

BatchConfigs ==
    {MakeConfig(Some(<<"t">>), Undefined, Undefined),
     MakeConfig(Undefined, Some(<<"u">>), Some(<<"p">>)),
     MakeConfig(Undefined, Some(<<"u">>), Undefined)}

Init ==
    /\ entry \in {"action", "local"}
    /\ dryRun \in BOOLEAN
    /\ validateOnly \in BOOLEAN
    /\ entry = "action" => ~dryRun /\ ~validateOnly
    /\ nPages \in 0..MaxPages
    /\ fileMappingsInput \in FileMappingsInputs
    /\ configOk = ParseFileMappings(fileMappingsInput, nPages)
    /\ fileMap = PlainFileMap
    /\ pageMap = [p \in Pages |-> MakePage(p, Undefined, Undefined, Undefined)]
    /\ cosmereCalls = [p \in Pages |-> <<>>]
    /\ fileOk \in [Pages -> BOOLEAN]
    /\ \A p \in Pages : p > nPages => fileOk[p]
    /\ config \in BatchConfigs
    /\ runPc = "start"
    /\ pc = [p \in Pages |-> "idle"]
    /\ vIdx = 0
    /\ remoteStarted = {}
    /\ remoteDone = {}
    /\ lateEffects = {}
    /\ taskError = [p \in Pages |-> "none"]
    /\ coreGetInput = "original"
    /\ coreSetOutput = "original"
    /\ saved = [p \in Pages |-> NoSaved]
    /\ outputs = NoOutputs
    /\ outputsVia = {}
    /\ report = NoReport
    /\ logged = {}
    /\ ClientIdle
    /\ ConvIdle

Next ==
    \/ IndexRun
    \/ \E p \in Pages : SyncFilesAccess(p)
    \/ \E p \in Pages : SyncFilesRemote(p)
    \/ PromiseAllReject
    \/ PromiseAllResolve
    \/ LocalRunnerRun
    \/ \E p \in Pages : LocalSyncFilesSetup(p)
    \/ \E p \in Pages : LocalSyncFilesFinally(p)
    \/ \E p \in Pages : DryRunSync(p)
    \/ AllSettledReport
    \/ ValidateConstruct
    \/ ValidateGetPage
    \/ ValidateFetched
    \/ ValidateFile

Spec == Init /\ [][Next]_vars

(***************************************************************************)
(* Properties of the batch, checked under Spec.                            *)
(***************************************************************************)
\* a step of page p's own task
TaskStep(p) ==
    \/ SyncFilesAccess(p)
    \/ SyncFilesRemote(p)
    \/ LocalSyncFilesSetup(p)
    \/ LocalSyncFilesFinally(p)
    \/ DryRunSync(p)

Running(p) == pc[p] \notin {"idle", "fulfilled", "rejected"}

\* page p's task runs syncFiles (it is no dry-run task)
SyncTask(p) == p \in Cfg /\ ~dryRun /\ ~validateOnly

\* C1: in syncFiles the local file check precedes the remote call: the sync
\* call of a page is started only once the access check has succeeded, and a
\* page whose file is inaccessible fails with the file-not-found error
\* without its sync call ever being started.
C1_FileCheckBeforeRemote ==
    \A p \in Pages :
        /\ p \in remoteStarted =>
              /\ SyncTask(p)
              /\ fileOk[p]
              /\ pc[p] \notin {"idle", "import", "access"}
        /\ (SyncTask(p) /\ ~fileOk[p]) =>
              /\ p \notin remoteStarted
              /\ pc[p] \in {"idle", "import", "access", "thrown", "rejected"}
              /\ pc[p] \in {"thrown", "rejected"} => taskError[p] = "file not found"

\* C1 witness: one page has failed on its missing file without a sync call,
\* while the sync call of another page, whose file is there, has started.
C1_Witness ==
    \E p, q \in Cfg :
        /\ ~dryRun
        /\ ~fileOk[p] /\ pc[p] = "rejected" /\ taskError[p] = "file not found"
        /\ p \notin remoteStarted
        /\ fileOk[q] /\ q \in remoteStarted

\* C2: in the local runner's batch the result is reported only when every
\* page task has settled, and as long as a task has not settled it can take
\* its next step whatever the other tasks have done: run() is still waiting
\* and has neither reported nor exited.
C2_CollectAllWaits ==
    entry = "local" =>
        /\ report.done => \A p \in Cfg : Settled(p)
        /\ runPc \in {"done", "exit1"} => \A p \in Cfg : ~Running(p)
        /\ \A p \in Cfg : Running(p) =>
              /\ runPc = "awaitAll"
              /\ ~report.done
              /\ ENABLED TaskStep(p)

\* C2 witness: the batch has reported after one task failed and another,
\* which was still running when the first failed, completed its sync.
C2_Witness ==
    /\ entry = "local"
    /\ report.done
    /\ \E p, q \in Cfg : pc[p] = "rejected" /\ pc[q] = "fulfilled" /\ q \in remoteDone

\* C3 as stated: every task the collect-all batch counts as a success has
\* completed its remote sync side effect.
C3_SuccessesSynced ==
    (entry = "local" /\ report.done) => Fulfilled \subseteq remoteDone

\* C3 amended: the batch reports successes + failures = N, N-1 and 1 when
\* exactly one task fails, and outside dry-run mode every task counted as a
\* success has completed its remote sync side effect.
C3_BatchIsolation ==
    (entry = "local" /\ report.done) =>
        /\ report.successful + report.failed = nPages
        /\ report.successful = Cardinality(Fulfilled)
        /\ report.failed = Cardinality(Rejected)
        /\ Cardinality({p \in Cfg : taskError[p] # "none"}) = 1 =>
              report.successful = nPages - 1 /\ report.failed = 1
        /\ ~dryRun => Fulfilled \subseteq remoteDone

\* C3 witness: a real batch of more than one page has reported with exactly
\* one failure, a missing local file.
C3_Witness ==
    /\ entry = "local" /\ ~dryRun /\ report.done
    /\ nPages > 1
    /\ report.failed = 1 /\ report.successful = nPages - 1
    /\ \E p \in Cfg : taskError[p] = "file not found"
    /\ Cardinality(remoteDone) = nPages - 1

\* C4: index.run launches every page task before it waits; it resolves, and
\* logs that all pages synced, only when every task succeeded; it rejects
\* only when the configuration is bad or a task has failed, and it can
\* reject as soon as one task has failed, whatever the state of the others;
\* a task that is still running when the batch has rejected is not
\* cancelled: it can still take its next step.
C4_FailFast ==
    entry = "action" =>
        /\ runPc = "awaitAll" => \A p \in Cfg : pc[p] # "idle"
        /\ (runPc = "awaitAll" /\ Rejected # {}) => ENABLED PromiseAllReject
        /\ runPc = "resolved" => \A p \in Cfg : pc[p] = "fulfilled"
        /\ ("All pages synced successfully" \in logged) <=> runPc = "resolved"
        /\ runPc = "rejected" => (~configOk \/ Rejected # {})
        /\ \A p \in Cfg : Running(p) => ENABLED TaskStep(p)

\* C4 witness: the batch has rejected while another task was in flight, and
\* that task completed its remote sync after the rejection.
C4_Witness ==
    /\ entry = "action"
    /\ runPc = "rejected"
    /\ lateEffects # {}

\* page p's syncFiles invocation ends in this step
SyncFilesEnds(p) ==
    /\ pc[p] \in {"access", "remote"}
    /\ pc'[p] \notin {"access", "remote"}

\* C11: every syncFiles invocation that ends either returns normally, having
\* set status=success with page-id, page-title and file-path of its page
\* after the remote sync of that page completed, or sets status=failed and
\* error to the message of the error it then throws; no failure ends in a
\* normal return, and status=success is never set for a page whose remote
\* sync did not complete.
C11_SyncFilesOutcome ==
    /\ [](outputs.status = "success" => outputs.pageId \in remoteDone)
    /\ [][\A p \in Cfg : SyncFilesEnds(p) =>
            \/ /\ pc'[p] \in {"returned", "fulfilled"}
               /\ pc[p] = "remote"
               /\ p \in remoteDone'
               /\ taskError'[p] = "none"
               /\ outputs'.status = "success"
               /\ outputs'.pageId = p
               /\ outputs'.pageTitle = p
               /\ outputs'.filePath = p
            \/ /\ pc'[p] \in {"thrown", "rejected"}
               /\ p \notin remoteDone'
               /\ taskError'[p] # "none"
               /\ outputs'.status = "failed"
               /\ outputs'.error = taskError'[p]]_vars

\* C11 witness: one invocation has thrown after its remote sync failed, the
\* outputs carry its failure, and another invocation succeeded before it.
C11_Witness ==
    /\ outputs.status = "failed"
    /\ outputs.pageId \in remoteDone
    /\ \E p \in Cfg :
         /\ pc[p] \in {"thrown", "rejected"}
         /\ p \in remoteStarted \ remoteDone
         /\ taskError[p] = "sync failed"
         /\ outputs.error = taskError[p]

\* the file-mappings input is no JSON text, or a JSON value that lacks a
\* field the schema requires or has it with another type
Malformed ==
    \/ fileMappingsInput.text # "json"
    \/ fileMappingsInput.baseUrl # "string"
    \/ fileMappingsInput.pages # "array"
    \/ /\ nPages > 0
       /\ (fileMappingsInput.pageId # "string" \/ fileMappingsInput.file # "string")

\* C12: a malformed configuration is fatal before any remote call: in both
\* entry points the run can only fail (index.run rejects, the local runner
\* exits with code 1), no page task is ever started, no sync call is made
\* and no request is issued.
C12_MalformedConfigFatal ==
    Malformed =>
        /\ runPc \in {"start", IF entry = "action" THEN "rejected" ELSE "exit1"}
        /\ runPc = "start" => ENABLED (IndexRun \/ LocalRunnerRun)
        /\ \A p \in Pages : pc[p] = "idle" /\ cosmereCalls[p] = <<>>
        /\ remoteStarted = {} /\ remoteDone = {}
        /\ client = "none" /\ issued = 0 /\ requests = <<>>
        /\ outputs = NoOutputs

\* C12 witness: a JSON input that fails the schema (a page without a string
\* pageId) has ended the local run, with pages configured and files present.
C12_Witness ==
    /\ entry = "local"
    /\ fileMappingsInput.text = "json"
    /\ fileMappingsInput.baseUrl = "string"
    /\ fileMappingsInput.pages = "array"
    /\ fileMappingsInput.pageId = "number"
    /\ nPages > 1
    /\ \A p \in Cfg : fileOk[p]
    /\ runPc = "exit1"

\* positions of a page task inside localSyncFiles or syncFiles
InSyncFiles(p) == pc[p] \in {"import", "access", "remote", "returned", "thrown"}

\* C13 as stated: in dry-run mode no remote request of any kind (fetch,
\* create or update) and no real syncFiles call is issued.
C13_DryRunNoRequest ==
    (entry = "local" /\ dryRun) =>
        /\ issued = 0 /\ requests = <<>>
        /\ remoteStarted = {}
        /\ \A p \in Pages : ~InSyncFiles(p)

\* C13, amended: in dry-run mode no changes are made: no page task enters
\* syncFiles, no sync call is made, no output is set, no create or update
\* request is issued, and a page task only reads its local file (it fails
\* exactly when the file cannot be read); no request of any kind is issued
\* unless --validate-only is given too, and then the requests are the
\* validation's fetches by id and no page task is started.
C13_DryRunNoChanges ==
    (entry = "local" /\ dryRun) =>
        /\ \A p \in Pages : ~InSyncFiles(p) /\ cosmereCalls[p] = <<>>
        /\ remoteStarted = {} /\ remoteDone = {}
        /\ outputs = NoOutputs /\ outputsVia = {}
        /\ coreGetInput = "original" /\ coreSetOutput = "original"
        /\ \A p \in Cfg : (pc[p] = "fulfilled" => fileOk[p])
        /\ \A p \in Cfg : (pc[p] = "rejected" => ~fileOk[p])
        /\ \A i \in 1..Len(requests) :
              requests[i].method = "GET" /\ requests[i].path = "/content/"
        /\ ~validateOnly => (issued = 0 /\ requests = <<>> /\ client = "none")
        /\ validateOnly => \A p \in Pages : pc[p] = "idle"

\* C13 witness: a dry run over several pages has reported, one page
\* converted and one failed on its file, in a run without validation.
C13_Witness ==
    /\ entry = "local" /\ dryRun /\ ~validateOnly
    /\ report.done
    /\ Fulfilled # {} /\ Rejected # {}

\* C14: with --validate-only the only remote requests issued are fetches by
\* id (GET) of configured pages, never a create or an update, and the run
\* ends without having started any page task, real or dry-run: no task
\* leaves its initial position, no sync call is made, nothing is reported.
C14_ValidateOnlyReadOnly ==
    (entry = "local" /\ validateOnly) =>
        /\ \A i \in 1..Len(requests) :
              /\ requests[i].method = "GET"
              /\ requests[i].path = "/content/"
              /\ requests[i].id \in Cfg
        /\ issued <= nPages
        /\ \A p \in Pages : pc[p] = "idle" /\ cosmereCalls[p] = <<>>
        /\ remoteStarted = {} /\ remoteDone = {}
        /\ outputs = NoOutputs
        /\ runPc # "awaitAll" /\ ~report.done

\* C14 witness: a validation run over several pages has ended after
\* fetching each of them.
C14_Witness ==
    /\ entry = "local" /\ validateOnly
    /\ runPc = "done"
    /\ nPages > 1
    /\ issued = nPages
    /\ requests # <<>>

\* the page tasks that have written the outputs: syncFiles sets them at its
\* end, on success and on failure
OutputWriters ==
    {p \in Cfg : SyncTask(p) /\ pc[p] \in {"returned", "thrown", "fulfilled", "rejected"}}

\* the outputs as the task of page p alone leaves them
OutputsOf(p) ==
    IF taskError[p] = "none"
    THEN [NoOutputs EXCEPT !.status = "success", !.pageId = p, !.pageTitle = p,
                           !.filePath = p]
    ELSE [NoOutputs EXCEPT !.status = "failed", !.error = taskError[p]]

BatchEnded == runPc \in {"resolved", "rejected", "done", "exit1"}

\* C21: the outputs status, page-id, page-title, file-path and error are
\* written by at most one page task of a batch, and the outputs observed
\* after the batch are those of a single page's outcome.
C21_OutputsSingleWriter ==
    /\ Cardinality(OutputWriters) <= 1
    /\ (BatchEnded /\ outputs # NoOutputs) =>
          \E p \in Cfg : outputs = OutputsOf(p)

\* page p's localSyncFiles has replaced the core functions and has not yet
\* run its finally block
Replaced(p) == entry = "local" /\ pc[p] \in {"access", "remote", "returned", "thrown"}

\* C27: in the local runner core.getInput and core.setOutput are the
\* original functions exactly when no localSyncFiles task is between its
\* replacement and its cleanup: they are the mock while a task is inside
\* syncFiles, and the originals once the last task has finished.
C27_CoreRestored ==
    entry = "local" =>
        /\ (\E p \in Cfg : Replaced(p)) =>
              (coreGetInput = "mock" /\ coreSetOutput = "mock")
        /\ (\A p \in Cfg : ~Replaced(p)) =>
              (coreGetInput = "original" /\ coreSetOutput = "original")

\* LocalRunner.run has ended: it returned, or the process exited with code 1
LocalRunEnded == entry = "local" /\ runPc \in {"done", "exit1"}

\* C29: the local runner exits with a failure status exactly when the
\* configuration could not be loaded or validated (no input, no JSON, a
\* schema error, or in validation mode a client that cannot be constructed)
\* or at least one page task of the batch was rejected; when every page
\* task is fulfilled, also in a batch of no pages, it reports that all
\* pages synced and does not exit with failure.
C29_ExitStatus ==
    LocalRunEnded =>
        /\ runPc = "exit1" <=>
              \/ ~configOk
              \/ validateOnly /\ client = "failed"
              \/ Rejected # {}
        /\ (configOk /\ ~validateOnly) =>
              /\ report.done
              /\ EveryTaskSettled
              /\ report.failed = Cardinality(Rejected)
              /\ EveryTaskFulfilled =>
                    /\ runPc = "done"
                    /\ "All pages synced successfully!" \in logged
              /\ ~EveryTaskFulfilled =>
                    /\ runPc = "exit1"
                    /\ "All pages synced successfully!" \notin logged

\* C29 witness: a batch of no pages has ended without failure, reported as
\* all pages synced.
C29_Witness ==
    /\ entry = "local" /\ ~validateOnly /\ ~dryRun
    /\ nPages = 0
    /\ runPc = "done"
    /\ report = [done |-> TRUE, successful |-> 0, failed |-> 0]
    /\ "All pages synced successfully!" \in logged

ValidationRun == entry = "local" /\ validateOnly
PageErrors == {"Error checking page", "Local file not found"}

\* C30: in validation mode the pages are checked one at a time in the order
\* of the configuration, each by a fetch of the page followed, when the
\* fetch returned, by the check of the local file; an error of a page's
\* check, a failed fetch or a missing file, is logged and the run goes on to
\* the next page, so that a run that ends has fetched every page and has
\* not failed; the run fails only on a configuration error or when the
\* client cannot be constructed, before any page is checked.
C30_ValidationContinues ==
    /\ [](ValidationRun =>
            /\ runPc = "exit1" => (~configOk \/ client = "failed")
            /\ client = "failed" => (runPc = "exit1" /\ issued = 0)
            /\ runPc = "exit1" => (issued = 0 /\ logged \cap PageErrors = {})
            /\ runPc = "validate:page" => issued = vIdx - 1
            /\ runPc \in {"validate:fetching", "validate:file"} =>
                  /\ issued = vIdx
                  /\ vIdx \in Cfg
                  /\ requests = <<GetPageRequest(config, vIdx)>>
            /\ runPc = "validate:fetching" => call.pc = "fetching"
            /\ runPc = "validate:file" =>
                  (call.pc = "returned" /\ result.kind \in {"page", "null"})
            /\ runPc = "done" =>
                  /\ issued = nPages
                  /\ vIdx = nPages + 1
                  /\ "Validation completed successfully" \in logged)
    /\ [][(ValidationRun /\ runPc \in {"validate:fetching", "validate:file"}) =>
            /\ vIdx' \in {vIdx, vIdx + 1}
            /\ vIdx' = vIdx => (runPc = "validate:fetching" /\ runPc' = "validate:file")
            /\ vIdx' = vIdx + 1 =>
                  runPc' = IF vIdx < nPages THEN "validate:page" ELSE "done"
            /\ (~fileOk[vIdx] /\ runPc = "validate:file") =>
                  "Local file not found" \in logged'
            /\ (runPc = "validate:fetching" /\ call'.pc = "thrown") =>
                  "Error checking page" \in logged']_vars

\* C30 witness: a validation run over several pages has ended without
\* failure after fetching every page, although a fetch had failed and a
\* local file was missing.
C30_Witness ==
    /\ ValidationRun
    /\ nPages > 1
    /\ runPc = "done"
    /\ PageErrors \subseteq logged
    /\ issued = nPages

(***************************************************************************)
(* The batch under fair scheduling: every await whose promise can settle   *)
(* is resumed (the file check and the remote call return), and run() takes *)
(* its next step when it can.  Configurations are valid, and the runs are  *)
(* the two batch modes and the dry run.                                    *)
(***************************************************************************)
InitLive ==
    /\ Init
    /\ fileMappingsInput = ValidInput
    /\ ~validateOnly
    /\ config = MakeConfig(Some(<<"t">>), Undefined, Undefined)

RunStep ==
    \/ IndexRun
    \/ PromiseAllReject
    \/ PromiseAllResolve
    \/ LocalRunnerRun
    \/ AllSettledReport

NextLive ==
    \/ RunStep
    \/ \E p \in Pages : TaskStep(p)

Fairness ==
    /\ WF_vars(RunStep)
    /\ \A p \in Pages : WF_vars(TaskStep(p))

SpecLive == InitLive /\ [][NextLive]_vars /\ Fairness

\* C26: every launched page task eventually settles, fulfilled or rejected,
\* and the collect-all batch eventually reports; a sync call that has begun
\* is never cancelled or abandoned, in either batch mode: the task stays at
\* the call until the call settles, it can always settle, also after the
\* batch has rejected, and it leaves the call only with the call's outcome.
C26_TasksTerminate ==
    /\ <>[](/\ \A p \in Cfg : Settled(p)
            /\ entry = "local" => report.done)
    /\ [](\A p \in Cfg : pc[p] = "remote" => ENABLED SyncFilesRemote(p))
    /\ [][\A p \in Cfg :
            (pc[p] = "remote" /\ pc'[p] # "remote") =>
                /\ pc'[p] \in {"returned", "thrown", "fulfilled", "rejected"}
                /\ (p \in remoteDone' \/ taskError'[p] = "sync failed")]_vars

\* C26 witness: the fail-fast batch has rejected on one task's failed sync
\* call, and the sync call of another task settled after the rejection;
\* every task has settled.
C26_Witness ==
    /\ entry = "action" /\ runPc = "rejected"
    /\ nPages > 1
    /\ \A p \in Cfg : Settled(p)
    /\ \E p, q \in Cfg : taskError[p] = "sync failed" /\ q \in lateEffects

(***************************************************************************)
(* The specification of one syncFiles invocation over every configuration  *)
(* and page mapping the schema admits: index.run with a single page.       *)
(***************************************************************************)
FileMaps ==
    {MakeFileMap(c, x, i, f, r) : c \in {Build, <<>>},
                                  x \in OptionalTexts(<<"x">>),
                                  i \in BOOLEAN, f \in BOOLEAN,
                                  r \in {Undefined, Some(<<"d">>)}}
PageMappings(p) ==
    {MakePage(p, t, s, q) : t \in {Undefined, Some(<<"T">>)},
                            s \in {Undefined, Some(<<"D","E","V">>)},
                            q \in {Undefined, Some(<<"9">>)}}

InitSyncFiles ==
    /\ entry = "action"
    /\ dryRun = FALSE
    /\ validateOnly = FALSE
    /\ nPages = 1
    /\ fileMappingsInput = ValidInput
    /\ configOk = ParseFileMappings(fileMappingsInput, nPages)
    /\ fileMap \in FileMaps
    /\ \E m \in PageMappings(1) :
           pageMap = [p \in Pages |->
                         IF p = 1 THEN m
                         ELSE MakePage(p, Undefined, Undefined, Undefined)]
    /\ cosmereCalls = [p \in Pages |-> <<>>]
    /\ fileOk \in [Pages -> BOOLEAN]
    /\ \A p \in Pages : p > nPages => fileOk[p]
    /\ config \in BatchConfigs
    /\ runPc = "start"
    /\ pc = [p \in Pages |-> "idle"]
    /\ vIdx = 0
    /\ remoteStarted = {}
    /\ remoteDone = {}
    /\ lateEffects = {}
    /\ taskError = [p \in Pages |-> "none"]
    /\ coreGetInput = "original"
    /\ coreSetOutput = "original"
    /\ saved = [p \in Pages |-> NoSaved]
    /\ outputs = NoOutputs
    /\ outputsVia = {}
    /\ report = NoReport
    /\ logged = {}
    /\ ClientIdle
    /\ ConvIdle

NextSyncFiles ==
    \/ IndexRun
    \/ \E p \in Pages : SyncFilesAccess(p)
    \/ \E p \in Pages : SyncFilesRemote(p)
    \/ PromiseAllReject
    \/ PromiseAllResolve

SpecSyncFiles == InitSyncFiles /\ [][NextSyncFiles]_vars

\* the configs handed to the sync step for page p
Handed(p) == {cosmereCalls[p][i] : i \in 1..Len(cosmereCalls[p])}

C20_PageFieldsCarried ==
    \A p \in Cfg : \A h \in Handed(p) :
        \A f \in DOMAIN pageMap[p] :
            \/ (f \in {"title", "spaceKey", "parentId"} /\ pageMap[p][f] = Undefined)
            \/ (f \in DOMAIN h.pages[1] /\ h.pages[1][f] = pageMap[p][f])

(***************************************************************************)
(* The specification of index.run over the page lists the schema admits:   *)
(* pageId and file of a page are any strings, so two pages of one          *)
(* configuration may name the same page id or the same file.               *)
(***************************************************************************)
\* the page ids and files a configuration names
TargetIds == 1..2
TargetFiles == 1..2

\* a pages element { pageId, file } as FileMappingsSchema returns it
PageOf(pageId, file) ==
    [MakePage(pageId, Undefined, Undefined, Undefined) EXCEPT !.file = file]

InitTargets ==
    /\ entry = "action"
    /\ dryRun = FALSE
    /\ validateOnly = FALSE
    /\ nPages \in 0..MaxPages
    /\ fileMappingsInput = ValidInput
    /\ configOk = ParseFileMappings(fileMappingsInput, nPages)
    /\ fileMap = PlainFileMap
    /\ pageMap \in [Pages -> {PageOf(i, f) : i \in TargetIds, f \in TargetFiles}]
    /\ \A p \in Pages : p > nPages => pageMap[p] = PageOf(1, 1)
    /\ cosmereCalls = [p \in Pages |-> <<>>]
    /\ \E accessible \in [TargetFiles -> BOOLEAN] :
           fileOk = [p \in Pages |-> p > nPages \/ accessible[pageMap[p].file]]
    /\ config = MakeConfig(Some(<<"t">>), Undefined, Undefined)
    /\ runPc = "start"
    /\ pc = [p \in Pages |-> "idle"]
    /\ vIdx = 0
    /\ remoteStarted = {}
    /\ remoteDone = {}
    /\ lateEffects = {}
    /\ taskError = [p \in Pages |-> "none"]
    /\ coreGetInput = "original"
    /\ coreSetOutput = "original"
    /\ saved = [p \in Pages |-> NoSaved]
    /\ outputs = NoOutputs
    /\ outputsVia = {}
    /\ report = NoReport
    /\ logged = {}
    /\ ClientIdle
    /\ ConvIdle

SpecTargets == InitTargets /\ [][NextSyncFiles]_vars

\* page p's sync call is in progress on this remote page id
Syncing(p, id) ==
    /\ pc[p] = "remote"
    /\ \E h \in Handed(p) : h.pages[1].pageId = id

\* C22: no two page tasks of a batch operate on the same local file or the
\* same remote page id, and no two sync calls are ever in progress on the
\* same remote page.
C22_DistinctTargets ==
    \A p, q \in Cfg :
        (p # q /\ pc[p] # "idle" /\ pc[q] # "idle") =>
            /\ pageMap[p].file # pageMap[q].file
            /\ pageMap[p].pageId # pageMap[q].pageId
            /\ \A id \in TargetIds : ~(Syncing(p, id) /\ Syncing(q, id))

(***************************************************************************)
(* Content conversion.  Texts are sequences of characters, so that         *)
(* splitting, trimming, replacing and matching are computed.               *)
(***************************************************************************)
MaxPlainLen == 4    \* longest plain text drawn

RECURSIVE Flatten(_)
Flatten(texts) ==
    IF texts = <<>> THEN <<>> ELSE Head(texts) \o Flatten(Tail(texts))

\* text has needle at index i
HasAt(text, needle, i) ==
    /\ i >= 1
    /\ i + Len(needle) - 1 <= Len(text)
    /\ SubSeq(text, i, i + Len(needle) - 1) = needle

\* text.indexOf(needle, from), 1-based; 0 when there is none
IndexOf(text, needle, from) ==
    LET hits == {i \in from..(Len(text) - Len(needle) + 1) : HasAt(text, needle, i)}
    IN  IF hits = {} THEN 0 ELSE CHOOSE i \in hits : \A j \in hits : i <= j

\* text.split(sep), sep not empty
RECURSIVE Split(_, _)
Split(text, sep) ==
    LET i == IndexOf(text, sep, 1)
    IN  IF i = 0 THEN <<text>>
        ELSE <<SubSeq(text, 1, i - 1)>>
             \o Split(SubSeq(text, i + Len(sep), Len(text)), sep)

\* text.replace(/needle/g, replacement), needle a literal
RECURSIVE ReplaceAll(_, _, _)
ReplaceAll(text, needle, replacement) ==
    LET i == IndexOf(text, needle, 1)
    IN  IF i = 0 THEN text
        ELSE SubSeq(text, 1, i - 1) \o replacement
             \o ReplaceAll(SubSeq(text, i + Len(needle), Len(text)), needle,
                           replacement)

\* text with the leading and trailing characters of the set removed
RECURSIVE StripStart(_, _)
StripStart(text, set) ==
    IF text # <<>> /\ Head(text) \in set THEN StripStart(Tail(text), set) ELSE text
RECURSIVE StripEnd(_, _)
StripEnd(text, set) ==
    IF text # <<>> /\ text[Len(text)] \in set
    THEN StripEnd(SubSeq(text, 1, Len(text) - 1), set) ELSE text

\* String.prototype.trim, for the white space the model draws
WhiteSpace == {" ", "\n", "\t", "\r"}
Trim(text) == StripEnd(StripStart(text, WhiteSpace), WhiteSpace)

NewLine == <<"\n">>
BlankLine == <<"\n","\n">>
Br == <<"<","b","r","/",">">>
POpen == <<"<","p",">">>
PClose == <<"<","/","p",">">>

\* p.replace(/\n/g, "<br/>") wrapped in a paragraph
Paragraph(p) == POpen \o ReplaceAll(p, NewLine, Br) \o PClose

\* content.split("\n\n").map(trim), before the empty ones are dropped
TrimmedParts(content) ==
    LET parts == Split(content, BlankLine)
    IN  [i \in 1..Len(parts) |-> Trim(parts[i])]

NotEmpty(p) == Len(p) > 0

\* convertPlainTextToConfluenceStorage(content, {splitParagraphs})
ConvertPlainTextUnfiltered(content, splitParagraphs) ==
    IF ~splitParagraphs THEN Paragraph(content)
    ELSE LET paragraphs == TrimmedParts(content)
         IN  Flatten([i \in 1..Len(paragraphs) |-> Paragraph(paragraphs[i])])
ConvertPlainText(content, splitParagraphs) ==
    IF ~splitParagraphs THEN Paragraph(content)
    ELSE LET paragraphs == SelectSeq(TrimmedParts(content), NotEmpty)
         IN  IF Len(paragraphs) = 0 THEN POpen \o PClose
             ELSE Flatten([i \in 1..Len(paragraphs) |-> Paragraph(paragraphs[i])])

\* convertHtmlToConfluenceStorage(content, {wrapInParagraph})
ConvertHtml(content, wrapInParagraph) ==
    IF ~wrapInParagraph THEN content ELSE POpen \o content \o PClose

\* String.prototype.toLowerCase, for ASCII letters
UpperCase == 
    <<"A","B","C","D","E","F","G","H","I","J","K","L","M","N","O","P",
      "Q","R","S","T","U","V","W","X","Y","Z">>
LowerCase == 
    <<"a","b","c","d","e","f","g","h","i","j","k","l","m","n","o","p",
      "q","r","s","t","u","v","w","x","y","z">>
ToLowerCase(text) ==
    [i \in 1..Len(text) |->
        IF \E k \in 1..26 : UpperCase[k] = text[i]
        THEN LowerCase[CHOOSE k \in 1..26 : UpperCase[k] = text[i]]
        ELSE text[i]]

\* the last path segment of a file name
RECURSIVE Basename(_)
Basename(file) ==
    LET i == IndexOf(file, <<"/">>, 1)
    IN  IF i = 0 THEN file ELSE Basename(SubSeq(file, i + 1, Len(file)))

\* path.extname(file): from the last dot of the last segment, empty when
\* there is no dot, when the only dot starts the segment, and for ".."
ExtName(file) ==
    LET base == Basename(file)
        dots == {i \in 1..Len(base) : base[i] = "."}
        last == IF dots = {} THEN 0 ELSE CHOOSE i \in dots : \A j \in dots : j <= i
    IN  IF last <= 1 \/ base = <<".", ".">> THEN <<>>
        ELSE SubSeq(base, last, Len(base))

DotMd == <<".","m","d">>
DotMarkdown == <<".","m","a","r","k","d","o","w","n">>
DotHtml == <<".","h","t","m","l">>
DotHtm == <<".","h","t","m">>

\* dryRunSync: the content type of a page's file, from its extension
ContentTypeOfCaseSensitive(file) ==
    LET fileExtension == ExtName(file)
    IN  IF fileExtension = DotMd \/ fileExtension = DotMarkdown THEN "markdown"
        ELSE IF fileExtension = DotHtml \/ fileExtension = DotHtm THEN "html"
        ELSE "plain"
ContentTypeOf(file) ==
    LET fileExtension == ToLowerCase(ExtName(file))
    IN  IF fileExtension = DotMd \/ fileExtension = DotMarkdown THEN "markdown"
        ELSE IF fileExtension = DotHtml \/ fileExtension = DotHtm THEN "html"
        ELSE "plain"

(***************************************************************************)
(* Markdown.  A document is the sequence of its blocks, paragraphs and     *)
(* fenced code blocks; marked renders each block to HTML, and the          *)
(* converter rewrites the rendered code blocks.                            *)
(***************************************************************************)
MaxBlocks == 2      \* blocks of a Markdown document
MaxCodeLen == 2     \* pieces of code in a document, over all its fences

\* code is made of pieces: a letter, a newline, an ampersand, the characters
\* that end a CDATA section
CodePieces == {<<"x">>, <<"\n">>, <<"&">>, <<"]","]",">">>}
Languages == {<<>>, <<"j","s">>, <<"c","+","+">>}

\* the code texts of exactly c pieces
RECURSIVE CodeTexts(_)
CodeTexts(c) ==
    IF c = 0 THEN {<<>>}
    ELSE {t \o piece : t \in CodeTexts(c - 1), piece \in CodePieces}

ParagraphBlock == [kind |-> "p", lang |-> <<>>, text |-> <<"p">>]
FenceBlock(lang, code) == [kind |-> "fence", lang |-> lang, text |-> code]

\* the documents of at most n blocks with at most k pieces of code
RECURSIVE DocsOf(_, _)
DocsOf(n, k) ==
    IF n = 0 THEN {<<>>}
    ELSE {<<>>}
         \cup {<<ParagraphBlock>> \o d : d \in DocsOf(n - 1, k)}
         \cup UNION {{<<FenceBlock(l, code)>> \o d :
                         l \in Languages, code \in CodeTexts(c),
                         d \in DocsOf(n - 1, k - c)} : c \in 0..k}

\* the source text of a document: a fence line (three tildes, or three
\* backquotes) opens and closes a code block
Fence == <<"~","~","~">>
BlockText(b) ==
    IF b.kind = "p" THEN b.text
    ELSE Fence \o b.lang \o NewLine \o b.text \o NewLine \o Fence
RECURSIVE MarkdownText(_)
MarkdownText(doc) ==
    IF doc = <<>> THEN <<>>
    ELSE IF Len(doc) = 1 THEN BlockText(doc[1])
    ELSE BlockText(doc[1]) \o BlankLine \o MarkdownText(Tail(doc))

\* marked's escape of text: & < > " ' become entities
Amp == <<"&","a","m","p",";">>
Lt == <<"&","l","t",";">>
Gt == <<"&","g","t",";">>
Quot == <<"&","q","u","o","t",";">>
Apos == <<"&","#","3","9",";">>
EscapeChar(c) ==
    IF c = "&" THEN Amp ELSE IF c = "<" THEN Lt ELSE IF c = ">" THEN Gt
    ELSE IF c = "\"" THEN Quot ELSE IF c = "'" THEN Apos ELSE <<c>>
Escape(text) == Flatten([i \in 1..Len(text) |-> EscapeChar(text[i])])

PreCode == <<"<","p","r","e",">","<","c","o","d","e">>
ClassLanguage == <<"c","l","a","s","s","=","\"","l","a","n","g","u","a","g","e","-">>
CodeClose == <<"<","/","c","o","d","e",">","<","/","p","r","e",">">>

\* marked's rendering of a fenced code block and of a paragraph
MarkedCode(lang, code) ==
    LET text == (IF code # <<>> /\ code[Len(code)] = "\n"
                 THEN SubSeq(code, 1, Len(code) - 1) ELSE code) \o NewLine
    IN  PreCode
        \o (IF lang = <<>> THEN <<>>
            ELSE <<" ">> \o ClassLanguage \o Escape(lang) \o <<"\"">>)
        \o <<">">> \o Escape(text) \o CodeClose \o NewLine
MarkedBlock(b) ==
    IF b.kind = "p" THEN POpen \o Escape(b.text) \o PClose \o NewLine
    ELSE MarkedCode(b.lang, b.text)

\* marked.parse(content, {breaks: false, gfm: true}) on a document
MarkedParse(doc) == Flatten([i \in 1..Len(doc) |-> MarkedBlock(doc[i])])

\* the characters \w matches
WordChars ==
    {UpperCase[k] : k \in 1..26} \cup {LowerCase[k] : k \in 1..26}
    \cup {Digit(d) : d \in 0..9} \cup {"_"}

\* the first index from i on whose character is not in the set
SkipWhile(text, i, set) ==
    LET stops == {j \in i..Len(text) : text[j] \notin set}
    IN  IF stops = {} THEN Len(text) + 1
        ELSE CHOOSE j \in stops : \A k \in stops : j <= k

\* /<pre><code(?:\s+class="language-(\w+)")?>/ at index i: the index after
\* the match, 0 when it does not match there
OpenTagEnd(html, i) ==
    LET j == i + Len(PreCode)
        w == SkipWhile(html, j, WhiteSpace)
        l == w + Len(ClassLanguage)
        q == SkipWhile(html, l, WordChars)
    IN  IF ~HasAt(html, PreCode, i) THEN 0
        ELSE IF /\ w > j
                /\ HasAt(html, ClassLanguage, w)
                /\ q > l
                /\ HasAt(html, <<"\"", ">">>, q)
        THEN q + 2
        ELSE IF HasAt(html, <<">">>, j) THEN j + 1
        ELSE 0

\* a plausible slip: &amp; decoded first
DecodeEntitiesAmpFirst(code) ==
    ReplaceAll(ReplaceAll(ReplaceAll(ReplaceAll(ReplaceAll(code,
        Amp, <<"&">>), Lt, <<"<">>), Gt, <<">">>), Quot, <<"\"">>), Apos, <<"'">>)
\* the replace callback: entities decoded, &amp; last
DecodeEntities(code) ==
    ReplaceAll(ReplaceAll(ReplaceAll(ReplaceAll(ReplaceAll(code,
        Lt, <<"<">>), Gt, <<">">>), Quot, <<"\"">>), Apos, <<"'">>), Amp, <<"&">>)

\* decodedCode.replace(/^\n+|\n+$/g, "")
TrimNewLines(code) == StripEnd(StripStart(code, {"\n"}), {"\n"})

MacroOpen == 
    <<"<","a","c",":","s","t","r","u","c","t","u","r","e","d",
      "-","m","a","c","r","o"," ","a","c",":","n","a","m","e",
      "=","\"","c","o","d","e","\"",">","<","a","c",":","p","l",
      "a","i","n","-","t","e","x","t","-","b","o","d","y",">",
      "<","!","[","C","D","A","T","A","[">>
MacroClose == 
    <<"]","]",">","<","/","a","c",":","p","l","a","i","n","-",
      "t","e","x","t","-","b","o","d","y",">","<","/","a","c",
      ":","s","t","r","u","c","t","u","r","e","d","-","m","a",
      "c","r","o",">">>
\* a plausible slip: the captured code put into the macro as it is
CodeMacroUndecoded(code) == MacroOpen \o TrimNewLines(code) \o MacroClose
CodeMacro(code) == MacroOpen \o TrimNewLines(DecodeEntities(code)) \o MacroClose

\* html.replace(/<pre><code...>([\s\S]*?)<\/code><\/pre>/g, callback) from
\* index i on: the leftmost match, its code ending at the first closing tag
RECURSIVE ReplaceCodeBlocks(_, _)
ReplaceCodeBlocks(html, i) ==
    LET open == IndexOf(html, PreCode, i)
        start == IF open = 0 THEN 0 ELSE OpenTagEnd(html, open)
        end == IF start = 0 THEN 0 ELSE IndexOf(html, CodeClose, start)
    IN  IF open = 0 THEN SubSeq(html, i, Len(html))
        ELSE IF end = 0
        THEN SubSeq(html, i, open) \o ReplaceCodeBlocks(html, open + 1)
        ELSE SubSeq(html, i, open - 1)
             \o CodeMacro(SubSeq(html, start, end - 1))
             \o ReplaceCodeBlocks(html, end + Len(CodeClose))

\* convertMarkdownToConfluenceStorage(content)
ConvertMarkdown(doc) == ReplaceCodeBlocks(MarkedParse(doc), 1)

\* convertToConfluenceStorage(content, contentType = "plain", options)
Unspecified == "unspecified"
DefaultOptions == [wrapInParagraph |-> TRUE, splitParagraphs |-> TRUE]
ConvertToConfluenceStorage(content, contentType, options) ==
    LET type == IF contentType = Unspecified THEN "plain" ELSE contentType
    IN  CASE type = "html" -> ConvertHtml(content.text, options.wrapInParagraph)
          [] type = "markdown" -> ConvertMarkdown(content.blocks)
          [] OTHER -> ConvertPlainText(content.text, options.splitParagraphs)

(***************************************************************************)
(* The specification of a conversion: dryRunSync determines the content    *)
(* type of a page's file and converts its content, or the dispatch is      *)
(* called with a content type, or none, and options.                       *)
(***************************************************************************)
PlainAlphabet == {"A", "B", "\n", " "}
PlainContents ==
    {[text |-> t, blocks |-> <<>>] : t \in TextsUpTo(PlainAlphabet, MaxPlainLen)}
MarkdownContent(doc) == [text |-> MarkdownText(doc), blocks |-> doc]
MarkdownContents == {MarkdownContent(d) : d \in DocsOf(MaxBlocks, MaxCodeLen)}
HtmlContents ==
    {[text |-> t, blocks |-> <<>>] : t \in {<<>>, <<"A">>, <<"<","b",">","A","<","/","b",">">>}}
DryRunContents == {MarkdownContent(d) : d \in DocsOf(1, 1)}

Stems == {<<>>, <<"a">>, <<"d",".","m","d","/","a">>, <<"a",".","m","d">>}
Suffixes ==
    {<<>>, <<".">>, <<".","m","d">>, <<".","M","D">>, <<".","M","d">>,
     <<".","m","a","r","k","d","o","w","n">>, <<".","M","a","r","k","D","o","w","n">>,
     <<".","h","t","m","l">>, <<".","H","T","M","L">>, <<".","h","t","m">>, <<".","H","T","M">>,
     <<".","t","x","t">>, <<".","m","d","x">>, <<"m","d">>}
FileNames == {stem \o suffix : stem \in Stems, suffix \in Suffixes}

InitConvert ==
    /\ entry = "convert"
    /\ dryRun = FALSE
    /\ validateOnly = FALSE
    /\ nPages = 0
    /\ fileMappingsInput = ValidInput
    /\ configOk = TRUE
    /\ fileMap = PlainFileMap
    /\ pageMap = [p \in Pages |-> MakePage(p, Undefined, Undefined, Undefined)]
    /\ cosmereCalls = [p \in Pages |-> <<>>]
    /\ fileOk = [p \in Pages |-> TRUE]
    /\ config = MakeConfig(Undefined, Undefined, Undefined)
    /\ runPc = "start"
    /\ pc = [p \in Pages |-> "idle"]
    /\ vIdx = 0
    /\ remoteStarted = {}
    /\ remoteDone = {}
    /\ lateEffects = {}
    /\ taskError = [p \in Pages |-> "none"]
    /\ coreGetInput = "original"
    /\ coreSetOutput = "original"
    /\ saved = [p \in Pages |-> NoSaved]
    /\ outputs = NoOutputs
    /\ outputsVia = {}
    /\ report = NoReport
    /\ logged = {}
    /\ ClientIdle
    /\ convPc = "start"
    /\ converted = <<>>
    /\ \/ /\ convCaller = "dryRunSync"
          /\ convFile \in FileNames
          /\ convContent \in DryRunContents
          /\ convType = "undetermined"
          /\ convOptions = DefaultOptions
       \/ /\ convCaller = "direct"
          /\ convFile = <<>>
          /\ \/ /\ convType \in {Unspecified, "plain", "text"}
                /\ convContent \in PlainContents
                /\ convOptions \in [wrapInParagraph : {TRUE}, splitParagraphs : BOOLEAN]
             \/ /\ convType = "markdown"
                /\ convContent \in MarkdownContents
                /\ convOptions = DefaultOptions
             \/ /\ convType = "html"
                /\ convContent \in HtmlContents
                /\ convOptions \in [wrapInParagraph : BOOLEAN, splitParagraphs : {TRUE}]

\* dryRunSync: the content type from the extension of page.file
DryRunDetermineType ==
    /\ convCaller = "dryRunSync"
    /\ convPc = "start"
    /\ convType' = ContentTypeOf(convFile)
    /\ convPc' = "typed"
    /\ UNCHANGED <<batchVars, config, clientVars, inputVars, cosmereCalls,
                   convCaller, convFile, convContent, convOptions, converted>>

\* the call of convertToConfluenceStorage
ConvertDispatch ==
    /\ \/ convCaller = "dryRunSync" /\ convPc = "typed"
       \/ convCaller = "direct" /\ convPc = "start"
    /\ converted' = ConvertToConfluenceStorage(convContent, convType, convOptions)
    /\ convPc' = "done"
    /\ UNCHANGED <<batchVars, config, clientVars, inputVars, cosmereCalls,
                   convCaller, convFile, convContent, convOptions, convType>>

NextConvert ==
    \/ DryRunDetermineType
    \/ ConvertDispatch

SpecConvert == InitConvert /\ [][NextConvert]_vars

(***************************************************************************)
(* Properties of the conversions, checked under SpecConvert.               *)
(***************************************************************************)
\* the number of places at which needle occurs in text
CountOf(text, needle) == Cardinality({i \in 1..Len(text) : HasAt(text, needle, i)})

MarkdownDone == convPc = "done" /\ convType = "markdown"
Fences(doc) == {i \in 1..Len(doc) : doc[i].kind = "fence"}
CdataOpen == <<"<","!","[","C","D","A","T","A","[">>
CdataClose == <<"]","]",">">>

\* C15: a Markdown conversion result contains exactly one code macro and one
\* CDATA section per fenced block of the source, whatever the block's
\* language annotation and body, and each block's code is in its CDATA with
\* leading and trailing newlines removed and everything between kept.
C15_OneMacroPerFence ==
    MarkdownDone =>
        LET doc == convContent.blocks
        IN  /\ CountOf(converted, MacroOpen) = Cardinality(Fences(doc))
            /\ CountOf(converted, CdataOpen) = Cardinality(Fences(doc))
            /\ \A i \in Fences(doc) :
                 Includes(converted,
                          CdataOpen \o TrimNewLines(doc[i].text) \o MacroClose)

\* C16: every Conversion Result is CDATA-safe: each CDATA section of the
\* result ends where its code macro ends, so no code body contains the
\* terminator "]]>".
C16_CdataSafe ==
    convPc = "done" =>
        \A i \in 1..Len(converted) :
            HasAt(converted, CdataOpen, i) =>
                HasAt(converted, MacroClose,
                      IndexOf(converted, CdataClose, i + Len(CdataOpen)))

PlainSplitDone ==
    /\ convPc = "done"
    /\ convType \notin {"html", "markdown"}
    /\ convOptions.splitParagraphs
Blank(text) == \A i \in 1..Len(text) : text[i] \in WhiteSpace
\* text without the characters of the set
Without(text, set) == SelectSeq(text, LAMBDA c : c \notin set)

\* C17: in splitting mode the plain-text conversion returns one paragraph
\* per part of the content between blank-line separators ("\n\n") that is
\* not blank, in order, trimmed, with each newline left in it replaced by
\* <br/>; when no part is left it returns exactly <p></p>, never the empty
\* text; "A\n\nB" yields exactly the two paragraphs <p>A</p><p>B</p>.
C17_PlainParagraphs ==
    PlainSplitDone =>
        LET content == convContent.text
            parts == SelectSeq(Split(content, BlankLine), LAMBDA p : ~Blank(p))
        IN  /\ converted # <<>>
            /\ Blank(content) <=> converted = POpen \o PClose
            /\ CountOf(converted, POpen) = IF parts = <<>> THEN 1 ELSE Len(parts)
            /\ CountOf(converted, PClose) = CountOf(converted, POpen)
            /\ ~Blank(content) =>
                 /\ ~Includes(converted, POpen \o PClose)
                 /\ \A c \in WhiteSpace :
                      /\ ~Includes(converted, POpen \o <<c>>)
                      /\ ~Includes(converted, <<c>> \o PClose)
                 /\ ~Includes(converted, POpen \o Br)
                 /\ ~Includes(converted, Br \o PClose)
            /\ ~Includes(converted, NewLine)
            /\ Without(ReplaceAll(ReplaceAll(ReplaceAll(converted,
                   POpen, <<>>), PClose, <<>>), Br, <<>>), WhiteSpace)
               = Without(content, WhiteSpace)
            /\ CountOf(converted, Br)
               = CountOf(Flatten([i \in 1..Len(parts) |-> Trim(parts[i])]), NewLine)
            /\ content = <<"A","\n","\n","B">>
               => converted = POpen \o <<"A">> \o PClose \o POpen \o <<"B">> \o PClose

\* C17 witness: the dispatch, called without a content type, has converted
\* "A\n\nB" in splitting mode to two paragraphs.
C17_Witness ==
    /\ PlainSplitDone
    /\ convType = Unspecified
    /\ convContent.text = <<"A","\n","\n","B">>
    /\ CountOf(converted, POpen) = 2

\* the last segment of the file name ends with the extension, in any case
\* of letters, and is longer than it
HasExtension(file, ext) ==
    LET base == Basename(file)
    IN  /\ Len(base) > Len(ext)
        /\ ToLowerCase(SubSeq(base, Len(base) - Len(ext) + 1, Len(base))) = ext

\* C18: the content type of a file is exactly one of markdown, html and
\* plain: markdown for the extensions .md and .markdown in any case of
\* letters, html for .html and .htm, plain for every other or missing
\* extension; and the dispatch called with no type or with a type that is
\* neither html nor markdown returns the plain-text conversion.
C18_ContentTypeTotal ==
    /\ (convCaller = "dryRunSync" /\ convPc # "start") =>
          /\ convType \in {"markdown", "html", "plain"}
          /\ convType = "markdown"
             <=> (HasExtension(convFile, DotMd) \/ HasExtension(convFile, DotMarkdown))
          /\ convType = "html"
             <=> (HasExtension(convFile, DotHtml) \/ HasExtension(convFile, DotHtm))
    /\ (convPc = "done" /\ convType \notin {"html", "markdown"}) =>
          converted = ConvertPlainText(convContent.text, convOptions.splitParagraphs)
    /\ (convPc = "done" /\ convType = "html") =>
          converted = ConvertHtml(convContent.text, convOptions.wrapInParagraph)

\* C18 witness: a file with an upper-case Markdown extension in a directory
\* whose name has a dot was typed markdown and converted.
C18_Witness ==
    /\ convCaller = "dryRunSync"
    /\ convFile = <<"d",".","m","d","/","a",".","M","D">>
    /\ convType = "markdown"
    /\ convPc = "done"
    /\ Includes(converted, MacroOpen)

(***************************************************************************)
(* The specification of the code normalizer: the replace callback is       *)
(* applied to a captured code text, or a document of one fenced block is   *)
(* converted, its code made of ordinary and special characters and of text *)
(* that looks like an entity.                                              *)
(***************************************************************************)
\* pieces of a captured code text: the entities, and what is left of one
EntityPieces ==
    {Lt, Gt, Quot, Apos, Amp, <<"&">>, <<"l","t",";">>, <<"a","m","p",";">>,
     <<"#","3","9",";">>, <<"x">>, <<"\n">>}
\* pieces of a source code text: the special characters, entities, a letter
SourcePieces ==
    {<<"&">>, <<"<">>, <<">">>, <<"\"">>, <<"'">>, Lt, Amp, <<"l","t",";">>,
     <<"x">>, <<"\n">>}

\* the texts of at most c pieces
RECURSIVE TextsOfPieces(_, _)
TextsOfPieces(pieces, c) ==
    IF c = 0 THEN {<<>>}
    ELSE LET shorter == TextsOfPieces(pieces, c - 1)
         IN  shorter \cup {t \o piece : t \in shorter, piece \in pieces}

CapturedCodes == TextsOfPieces(EntityPieces, MaxCodeLen)
SourceCodes == TextsOfPieces(SourcePieces, MaxCodeLen)
WordLanguages == {<<>>, <<"j","s">>}

InitNormalize ==
    /\ entry = "convert"
    /\ dryRun = FALSE
    /\ validateOnly = FALSE
    /\ nPages = 0
    /\ fileMappingsInput = ValidInput
    /\ configOk = TRUE
    /\ fileMap = PlainFileMap
    /\ pageMap = [p \in Pages |-> MakePage(p, Undefined, Undefined, Undefined)]
    /\ cosmereCalls = [p \in Pages |-> <<>>]
    /\ fileOk = [p \in Pages |-> TRUE]
    /\ config = MakeConfig(Undefined, Undefined, Undefined)
    /\ runPc = "start"
    /\ pc = [p \in Pages |-> "idle"]
    /\ vIdx = 0
    /\ remoteStarted = {}
    /\ remoteDone = {}
    /\ lateEffects = {}
    /\ taskError = [p \in Pages |-> "none"]
    /\ coreGetInput = "original"
    /\ coreSetOutput = "original"
    /\ saved = [p \in Pages |-> NoSaved]
    /\ outputs = NoOutputs
    /\ outputsVia = {}
    /\ report = NoReport
    /\ logged = {}
    /\ ClientIdle
    /\ convPc = "start"
    /\ converted = <<>>
    /\ convFile = <<>>
    /\ convOptions = DefaultOptions
    /\ \/ /\ convCaller = "replace"
          /\ convType = "code"
          /\ convContent \in {[text |-> t, blocks |-> <<>>] : t \in CapturedCodes}
       \/ /\ convCaller = "direct"
          /\ convType = "markdown"
          /\ convContent \in
               {MarkdownContent(<<FenceBlock(l, code)>>) :
                   l \in WordLanguages, code \in SourceCodes}

\* html.replace's callback on one captured code text
ReplaceCallback ==
    /\ convCaller = "replace"
    /\ convPc = "start"
    /\ converted' = CodeMacro(convContent.text)
    /\ convPc' = "done"
    /\ UNCHANGED <<batchVars, config, clientVars, inputVars, cosmereCalls,
                   convCaller, convFile, convContent, convOptions, convType>>

NextNormalize ==
    \/ ReplaceCallback
    \/ ConvertDispatch

SpecNormalize == InitNormalize /\ [][NextNormalize]_vars

(***************************************************************************)
(* Properties of the code normalizer, checked under SpecNormalize.         *)
(***************************************************************************)
Entities == <<Lt, Gt, Quot, Apos, Amp>>
EntityChars == <<"<", ">", "\"", "'", "&">>

\* the entity that starts at index i of the text, 0 when there is none
EntityAt(text, i) ==
    IF \E k \in 1..5 : HasAt(text, Entities[k], i)
    THEN CHOOSE k \in 1..5 : HasAt(text, Entities[k], i)
    ELSE 0

\* one pass over the text from index i on: each entity met is replaced by
\* its character, and what has been produced is not read again
RECURSIVE SinglePassDecode(_, _)
SinglePassDecode(text, i) ==
    IF i > Len(text) THEN <<>>
    ELSE LET k == EntityAt(text, i)
         IN  IF k = 0 THEN <<text[i]>> \o SinglePassDecode(text, i + 1)
             ELSE <<EntityChars[k]>>
                  \o SinglePassDecode(text, i + Len(Entities[k]))

CallbackDone == convCaller = "replace" /\ convPc = "done"
AmpLt == <<"&","a","m","p",";","l","t",";">>

\* C23: the normalizer decodes every entity occurrence of the captured code
\* exactly once: the five replacements in sequence, &amp; last, give the
\* result of one simultaneous pass over the five entities, and a captured
\* code &amp;lt; comes out as the text &lt;, not as <.
C23_DecodeOnce ==
    CallbackDone =>
        LET code == convContent.text
        IN  /\ converted
                 = MacroOpen \o TrimNewLines(SinglePassDecode(code, 1)) \o MacroClose
            /\ Includes(code, AmpLt) => Includes(converted, Lt)
            /\ code = AmpLt => converted = MacroOpen \o Lt \o MacroClose

\* C23 witness: the captured code &amp;lt; has been normalized to &lt;.
C23_Witness ==
    /\ CallbackDone
    /\ convContent.text = AmpLt
    /\ converted = MacroOpen \o Lt \o MacroClose

FenceDone == convCaller = "direct" /\ convType = "markdown" /\ convPc = "done"

\* C24: the CDATA body of a converted fenced block is the block's code text
\* without its leading and trailing newlines, whatever special characters
\* (& < > " ') and entity-like texts (&lt;, &amp;) the code contains: the
\* decoding inverts the escaping of the Markdown engine.
C24_FenceRoundTrip ==
    FenceDone =>
        LET code == convContent.blocks[1].text
        IN  /\ DecodeEntities(Escape(code)) = code
            /\ converted = MacroOpen \o TrimNewLines(code) \o MacroClose \o NewLine

\* C24 witness: a fenced block whose code is the text &lt; followed by < has
\* been converted.
C24_Witness ==
    /\ FenceDone
    /\ convContent.blocks[1].text = Lt \o <<"<">>
    /\ Includes(converted, CdataOpen \o Lt \o <<"<">> \o CdataClose)

(***************************************************************************)
(* The specification of the ConfluenceApiClient: a client is constructed   *)
(* from a configuration and its operations are called one after another;   *)
(* the remote answers each fetch with any response.                        *)
(***************************************************************************)
MaxCalls == 2       \* operations called on one client
MaxVersion == 2     \* version numbers a caller supplies

PageIds == 1..2
Versions == 1..MaxVersion

ClientConfigs ==
    {MakeConfig(t, u, p) : t \in OptionalTexts(<<"t">>),
                           u \in OptionalTexts(<<"u">>),
                           p \in OptionalTexts(<<"p">>)}

Statuses == {200, 201, 401, 403, 404, 409, 500}
StatusTexts == {<<>>, <<"N","o","t"," ","F","o","u","n","d">>, <<"E","4","0","4">>}
Bodies == TextsUpTo({"4", "0"}, MaxTextLen)
Responses ==
    {NetworkError} \cup
    {Response(st, tx, b) : st \in Statuses, tx \in StatusTexts, b \in Bodies}

\* createPage's request: POST /content with the page data
CreatePageRequest(cfg) == Request(cfg, "POST", "/content", 0, 0)

\* a plausible slip: the client bumps the version itself
UpdatePageRequestBumped(cfg, pageId, version) ==
    Request(cfg, "PUT", "/content/", pageId, version + 1)

\* updatePage's request: PUT /content/{id} with the page data as supplied
UpdatePageRequest(cfg, pageId, version) ==
    Request(cfg, "PUT", "/content/", pageId, version)

\* getSpace's request: GET /space/{spaceKey}
GetSpaceRequest(cfg, spaceKey) == Request(cfg, "GET", "/space/", spaceKey, 0)

InitClient ==
    /\ entry = "client"
    /\ dryRun = FALSE
    /\ validateOnly = FALSE
    /\ configOk = TRUE
    /\ nPages = 0
    /\ fileMappingsInput = ValidInput
    /\ fileMap = PlainFileMap
    /\ pageMap = [p \in Pages |-> MakePage(p, Undefined, Undefined, Undefined)]
    /\ cosmereCalls = [p \in Pages |-> <<>>]
    /\ fileOk = [p \in Pages |-> TRUE]
    /\ config \in ClientConfigs
    /\ runPc = "start"
    /\ pc = [p \in Pages |-> "idle"]
    /\ vIdx = 0
    /\ remoteStarted = {}
    /\ remoteDone = {}
    /\ lateEffects = {}
    /\ taskError = [p \in Pages |-> "none"]
    /\ coreGetInput = "original"
    /\ coreSetOutput = "original"
    /\ saved = [p \in Pages |-> NoSaved]
    /\ outputs = NoOutputs
    /\ outputsVia = {}
    /\ report = NoReport
    /\ logged = {}
    /\ ClientIdle
    /\ ConvIdle

\* new ConfluenceApiClient(config)
Constructor ==
    /\ entry = "client"
    /\ client = "none"
    /\ client' = IF ConstructorAccepts(config) THEN "ok" ELSE "failed"
    /\ UNCHANGED <<batchVars, config, call, requests, issued, response, result,
                   nCalls>>
    /\ UNCHANGED <<inputVars, cosmereCalls, convVars>>

\* an operation can be called on a constructed client
CanCall ==
    /\ entry = "client"
    /\ client = "ok"
    /\ call.pc # "fetching"
    /\ nCalls < MaxCalls

\* the operation up to `await fetch(url, requestOptions)` in makeRequest
StartCall(op, pageId, version, request) ==
    /\ CanCall
    /\ call' = [op |-> op, pageId |-> pageId, version |-> version,
                pc |-> "fetching"]
    /\ requests' = <<request>>
    /\ issued' = issued + 1
    /\ nCalls' = nCalls + 1
    /\ response' = NoResponse
    /\ result' = NoResult
    /\ UNCHANGED <<batchVars, config, client>>
    /\ UNCHANGED <<inputVars, cosmereCalls, convVars>>

GetPage(pageId) ==
    StartCall("getPage", pageId, 0, GetPageRequest(config, pageId))

CreatePage ==
    StartCall("createPage", 0, 0, CreatePageRequest(config))

UpdatePage(pageId, version) ==
    StartCall("updatePage", pageId, version,
              UpdatePageRequest(config, pageId, version))

GetSpace(spaceKey) ==
    StartCall("getSpace", spaceKey, 0, GetSpaceRequest(config, spaceKey))

\* how the operation in progress ends on the response: getPage turns a
\* thrown error whose message includes "404" into null; the other
\* operations let makeRequest's error through
OperationOutcome(op, resp) ==
    IF op = "getPage" THEN GetPageOutcome(resp)
    ELSE IF MakeRequestOutcome(resp) = "throws" THEN "throws"
    ELSE IF op = "getSpace" THEN "space"
    ELSE "page"

\* the fetch settles and the operation runs to its end
FetchSettles ==
    /\ entry = "client"
    /\ call.pc = "fetching"
    /\ \E resp \in Responses :
         LET outcome == OperationOutcome(call.op, resp)
         IN  /\ response' = resp
             /\ result' = [kind |-> IF outcome = "throws" THEN "error" ELSE outcome,
                           message |-> IF outcome = "throws"
                                       THEN ErrorMessage(resp) ELSE <<>>,
                           requestError |-> RequestError(resp)]
             /\ call' = [call EXCEPT !.pc = IF outcome = "throws" THEN "thrown"
                                            ELSE "returned"]
    /\ UNCHANGED <<batchVars, config, client, requests, issued, nCalls>>
    /\ UNCHANGED <<inputVars, cosmereCalls, convVars>>

NextClient ==
    \/ Constructor
    \/ \E id \in PageIds : GetPage(id)
    \/ CreatePage
    \/ \E id \in PageIds, v \in Versions : UpdatePage(id, v)
    \/ \E key \in PageIds : GetSpace(key)
    \/ FetchSettles

SpecClient == InitClient /\ [][NextClient]_vars

(***************************************************************************)
(* Properties of the client, checked under SpecClient.                     *)
(***************************************************************************)
Ended == call.pc \in {"returned", "thrown"}
Failing(resp) == resp.kind = "response" /\ ~Ok(resp)

\* C6: a 404 answer to fetch-by-id is "not found", not a failure: whatever
\* the status text and the body, getPage returns null and throws nothing.
C6_NotFoundIsNull ==
    (call.op = "getPage" /\ Ended /\ response.kind = "response"
        /\ response.status = 404)
    => (call.pc = "returned" /\ result.kind = "null")

\* C6 witness: getPage has returned null on a 404 whose status text is empty
\* and whose body is not.
C6_Witness ==
    /\ entry = "client"
    /\ call.op = "getPage" /\ call.pc = "returned"
    /\ response.status = 404 /\ response.statusText = <<>>
    /\ response.body = <<"0", "0">>
    /\ result.kind = "null"

\* C7: every failing answer to fetch-by-id other than 404, whatever its
\* status text and body, makes getPage throw; it is never reported as null.
C7_OtherFailuresSurface ==
    (call.op = "getPage" /\ Ended /\ Failing(response)
        /\ response.status # 404)
    => (call.pc = "thrown" /\ result.kind = "error")

\* the requests of the operation in progress
IssuedRequests == {requests[i] : i \in 1..Len(requests)}

EndsWith(text, suffix) ==
    /\ Len(text) >= Len(suffix)
    /\ SubSeq(text, Len(text) - Len(suffix) + 1, Len(text)) = suffix

\* C25: a non-2xx response to the request of any operation makes
\* makeRequest throw one error, whose message contains the status code, the
\* status text and the raw body of the response; every operation but
\* getPage ends with that error; makeRequest returns a response, and an
\* operation returns a page or a space, only when the response is 2xx.
C25_NonOkIsFailure ==
    Ended =>
        /\ Failing(response) =>
              /\ Len(requests) = 1
              /\ result.requestError # <<>>
              /\ StartsWith(result.requestError,
                            FailedPrefix \o ToDecimal(response.status) \o <<" ">>
                            \o response.statusText)
              /\ EndsWith(result.requestError, ResponsePrefix \o response.body)
              /\ result.kind \in {"error", "null"}
              /\ result.kind = "error" => result.message = result.requestError
              /\ call.op # "getPage" => (call.pc = "thrown" /\ result.kind = "error")
        /\ result.requestError = <<>> <=> Ok(response)
        /\ result.kind \in {"page", "space"} <=> Ok(response)

\* C25 witness: createPage has thrown on a 403 with a status text and a
\* body, and the message carries all three.
C25_Witness ==
    /\ entry = "client"
    /\ call.op = "createPage" /\ call.pc = "thrown"
    /\ response.status = 403
    /\ response.statusText = <<"E","4","0","4">>
    /\ response.body = <<"0","4">>
    /\ result.message =
          FailedPrefix \o <<"4","0","3"," ","E","4","0","4">> \o ResponsePrefix
          \o <<"0","4">>

AuthResolves ==
    \/ (config.personalAccessToken # Undefined /\ config.personalAccessToken[1] # <<>>)
    \/ /\ config.user # Undefined /\ config.user[1] # <<>>
       /\ config.pass # Undefined /\ config.pass[1] # <<>>

\* C9: construction succeeds exactly when an authentication method resolves
\* to non-empty, and a client whose construction has not succeeded has
\* issued no request and started no operation.
C9_ConstructionFailsFast ==
    /\ client # "none" => (client = "ok" <=> AuthResolves)
    /\ client # "ok" => (issued = 0 /\ nCalls = 0 /\ call = NoCall /\ requests = <<>>)

\* C9 witness: construction has failed for a user without a pass.
C9_Witness ==
    /\ entry = "client"
    /\ client = "failed"
    /\ config.personalAccessToken = Undefined
    /\ config.user = Some(<<"u">>) /\ config.pass = Undefined

\* C10: updatePage is a single attempt: from its call to its end it has
\* issued exactly one request, a PUT to /content/{id} carrying the version
\* number it was given, every operation of the client issues one request and
\* no more, and a failing answer ends updatePage with the error thrown.
C10_UpdateSingleAttempt ==
    /\ issued = nCalls
    /\ call.op = "updatePage" =>
          /\ Len(requests) = 1
          /\ requests[1].method = "PUT"
          /\ requests[1].path = "/content/" /\ requests[1].id = call.pageId
          /\ requests[1].version = call.version
          /\ (Ended /\ ~Ok(response)) => (call.pc = "thrown" /\ result.kind = "error")

\* C10 witness: the remote has rejected an update carrying version 2 with a
\* 409 and updatePage has thrown after its one request.
C10_Witness ==
    /\ entry = "client"
    /\ call.op = "updatePage" /\ call.version = 2 /\ call.pc = "thrown"
    /\ response.status = 409
    /\ Len(requests) = 1 /\ issued = nCalls

\* C28: every request a constructed client issues, whatever the operation,
\* carries an Authorization header, Bearer or Basic, and Content-Type and
\* Accept set to application/json; a client that was not constructed issues
\* none.
C28_RequestsAuthenticated ==
    /\ requests # <<>> => client = "ok"
    /\ \A r \in IssuedRequests :
          /\ r.headers.Authorization # Undefined
          /\ \/ StartsWith(r.headers.Authorization[1], BearerPrefix)
                /\ Len(r.headers.Authorization[1]) > Len(BearerPrefix)
             \/ StartsWith(r.headers.Authorization[1], BasicPrefix)
                /\ Len(r.headers.Authorization[1]) > Len(BasicPrefix)
          /\ r.headers.ContentType = "application/json"
          /\ r.headers.Accept = "application/json"

\* C28 witness: a client configured with user and pass only has issued the
\* request of getSpace with the header "Basic dTpw".
C28_Witness ==
    /\ entry = "client"
    /\ config = MakeConfig(Undefined, Some(<<"u">>), Some(<<"p">>))
    /\ call.op = "getSpace"
    /\ requests # <<>>
    /\ requests[1].path = "/space/"
    /\ requests[1].headers.Authorization = Some(<<"B","a","s","i","c"," ","d","T","p","w">>)

====
